---- MODULE Spec2Model ----
(***************************************************************************)
(* Dr. Rodger: the grid, the capsule and the lock / spawn / game-over      *)
(* cycle of the game scene.                                                *)
(*                                                                         *)
(* Objects are records.  A grid cell holds Null, a pathogen record or a    *)
(* capsule-half record; the falling capsule is a record holding its two    *)
(* halves.  Every handler of the scene is a function from scene record to  *)
(* scene record, so that an action is one whole handler call.              *)
(***************************************************************************)
EXTENDS Integers, Sequences, FiniteSets, TLC

(***************************************************************************)
(* GameConfig                                                              *)
(***************************************************************************)
FIELD_WIDTH == 8
FIELD_HEIGHT == 16
BOTTLE_NECK_ROW == 3
INPUT_REPEAT_DELAY == 200
INPUT_REPEAT_RATE == 50
SPEEDS == [LOW |-> 1000, MEDIUM |-> 500, HIGH |-> 250]
PATHOGENS_PER_LEVEL(lvl) == 4 + (lvl * 2)

\* Math.floor(Math.random() * 3): the colour indices
Colors == 0 .. 2
Orientations == {"horizontal", "vertical"}

(***************************************************************************)
(* GameGrid                                                                *)
(***************************************************************************)
Null == [kind |-> "null"]

Cells == (0 .. FIELD_WIDTH - 1) \X (0 .. FIELD_HEIGHT - 1)

\* the bounds test shared by get and set
InBounds(col, row) ==
    ~(col < 0 \/ col >= FIELD_WIDTH \/ row < 0 \/ row >= FIELD_HEIGHT)

\* new GameGrid(): every cell null
NewGrid == [cell \in Cells |-> Null]

\* A bug one could make: clear empties the cells that hold capsule halves
\* and leaves the pathogens.
GridClearKeepsPathogens(g) ==
    [cell \in Cells |-> IF g[cell].kind = "pathogen" THEN g[cell] ELSE Null]

\* GameGrid.clear
GridClear(g) == [cell \in Cells |-> Null]

\* GameGrid.get: null out of bounds
GridGet(g, col, row) ==
    IF ~InBounds(col, row) THEN Null ELSE g[<<col, row>>]

\* Pathogen.updateGridPosition
UpdateGridPosition(p, newCol, newRow) ==
    [p EXCEPT !.gridCol = newCol, !.gridRow = newRow]

\* A bug one could make: coordinates off the field brought back to its edge
\* instead of being refused.
GridSetClamped(g, col, row, content) ==
    LET c == IF col < 0 THEN 0 ELSE IF col >= FIELD_WIDTH THEN FIELD_WIDTH - 1 ELSE col
        r == IF row < 0 THEN 0 ELSE IF row >= FIELD_HEIGHT THEN FIELD_HEIGHT - 1 ELSE row
    IN  [g EXCEPT ![<<c, r>>] =
            IF content.kind = "pathogen"
            THEN UpdateGridPosition(content, c, r)
            ELSE content]

\* GameGrid.set: the grid after the call (a pathogen stored is told its cell)
GridSet(g, col, row, content) ==
    IF ~InBounds(col, row) THEN g
    ELSE [g EXCEPT ![<<col, row>>] =
            IF content.kind = "pathogen"
            THEN UpdateGridPosition(content, col, row)
            ELSE content]

\* GameGrid.set: the value returned
GridSetResult(g, col, row, content) == InBounds(col, row)

\* GameGrid.remove: the grid after the call
GridRemove(g, col, row) == GridSet(g, col, row, Null)

\* GameGrid.remove: the value returned
GridRemoveResult(g, col, row) == GridGet(g, col, row)

\* GameGrid.isOccupied
IsOccupied(g, col, row) == GridGet(g, col, row) # Null

\* A bug one could make: a cell taken for empty unless it holds a pathogen.
IsEmptyPathogenBlind(g, col, row) == GridGet(g, col, row).kind # "pathogen"

\* GameGrid.isEmpty
IsEmpty(g, col, row) == GridGet(g, col, row) = Null

\* GameGrid.countPathogens
CountPathogens(g) == Cardinality({cell \in Cells : g[cell].kind = "pathogen"})

\* GameGrid.getPathogens, as the set of pathogens found
GetPathogens(g) == {g[cell] : cell \in {x \in Cells : g[x].kind = "pathogen"}}

\* GameGrid.isBottleNeckClear
IsBottleNeckClear(g) ==
    \A col \in 0 .. FIELD_WIDTH - 1 : \A row \in 0 .. BOTTLE_NECK_ROW - 1 :
        ~IsOccupied(g, col, row)

(***************************************************************************)
(* The optional grid argument of the capsule operations (grid?: GameGrid)  *)
(***************************************************************************)
WithGrid(g) == [present |-> TRUE, grid |-> g]
NoGrid == [present |-> FALSE]

(***************************************************************************)
(* Pathogen and CapsuleHalf                                                *)
(***************************************************************************)
\* new Pathogen(colorIndex, gridCol, gridRow)
NewPathogen(colorIndex, gridCol, gridRow) ==
    [kind |-> "pathogen", colorIndex |-> colorIndex,
     gridCol |-> gridCol, gridRow |-> gridRow]

\* new CapsuleHalf(colorIndex); owner and part stand for the object's identity
NewCapsuleHalf(colorIndex, owner, part) ==
    [kind |-> "half", colorIndex |-> colorIndex, gridCol |-> 0, gridRow |-> 0,
     owner |-> owner, part |-> part]

(***************************************************************************)
(* Capsule                                                                 *)
(***************************************************************************)
\* A bug one could make: the second half of a vertical capsule put one
\* column to the right instead of one row below.
UpdateHalfPositionsSkewed(c) ==
    LET dc == IF c.orientation = "horizontal" THEN 1 ELSE 1
        dr == 0
    IN  IF c.half1IsFirst
        THEN [c EXCEPT !.half1.gridCol = c.gridCol, !.half1.gridRow = c.gridRow,
                       !.half2.gridCol = c.gridCol + dc, !.half2.gridRow = c.gridRow + dr]
        ELSE [c EXCEPT !.half2.gridCol = c.gridCol, !.half2.gridRow = c.gridRow,
                       !.half1.gridCol = c.gridCol + dc, !.half1.gridRow = c.gridRow + dr]

\* Capsule.updateHalfPositions
UpdateHalfPositions(c) ==
    IF c.half1IsFirst
    THEN IF c.orientation = "horizontal"
         THEN [c EXCEPT !.half1.gridCol = c.gridCol, !.half1.gridRow = c.gridRow,
                        !.half2.gridCol = c.gridCol + 1, !.half2.gridRow = c.gridRow]
         ELSE [c EXCEPT !.half1.gridCol = c.gridCol, !.half1.gridRow = c.gridRow,
                        !.half2.gridCol = c.gridCol, !.half2.gridRow = c.gridRow + 1]
    ELSE IF c.orientation = "horizontal"
         THEN [c EXCEPT !.half2.gridCol = c.gridCol, !.half2.gridRow = c.gridRow,
                        !.half1.gridCol = c.gridCol + 1, !.half1.gridRow = c.gridRow]
         ELSE [c EXCEPT !.half2.gridCol = c.gridCol, !.half2.gridRow = c.gridRow,
                        !.half1.gridCol = c.gridCol, !.half1.gridRow = c.gridRow + 1]

\* new Capsule(color1, color2, orientation); id stands for the object's identity
NewCapsule(color1, color2, orientation, id) ==
    UpdateHalfPositions(
        [kind |-> "capsule", id |-> id,
         half1 |-> NewCapsuleHalf(color1, id, 1),
         half2 |-> NewCapsuleHalf(color2, id, 2),
         orientation |-> orientation, half1IsFirst |-> TRUE,
         gridCol |-> 0, gridRow |-> 0, isFalling |-> TRUE])

\* Capsule.setGridPosition
SetGridPosition(c, col, row) ==
    UpdateHalfPositions([c EXCEPT !.gridCol = col, !.gridRow = row])

\* Capsule.canMoveLeft
CanMoveLeft(c, arg) ==
    IF c.gridCol <= 0 THEN FALSE
    ELSE IF ~arg.present THEN TRUE
    ELSE IF c.orientation = "horizontal"
         THEN ~IsOccupied(arg.grid, c.gridCol - 1, c.gridRow)
         ELSE ~(IsOccupied(arg.grid, c.gridCol - 1, c.gridRow)
                \/ IsOccupied(arg.grid, c.gridCol - 1, c.gridRow + 1))

\* A bug one could make: the same right margin for both orientations.
CanMoveRightUniformMargin(c, arg) ==
    IF c.gridCol >= FIELD_WIDTH - 1 THEN FALSE
    ELSE IF ~arg.present THEN TRUE
    ELSE IF c.orientation = "horizontal"
         THEN ~IsOccupied(arg.grid, c.gridCol + 2, c.gridRow)
         ELSE ~(IsOccupied(arg.grid, c.gridCol + 1, c.gridRow)
                \/ IsOccupied(arg.grid, c.gridCol + 1, c.gridRow + 1))

\* Capsule.canMoveRight
CanMoveRight(c, arg) ==
    IF (IF c.orientation = "horizontal"
        THEN c.gridCol + 1 >= FIELD_WIDTH - 1
        ELSE c.gridCol >= FIELD_WIDTH - 1) THEN FALSE
    ELSE IF ~arg.present THEN TRUE
    ELSE IF c.orientation = "horizontal"
         THEN ~IsOccupied(arg.grid, c.gridCol + 2, c.gridRow)
         ELSE ~(IsOccupied(arg.grid, c.gridCol + 1, c.gridRow)
                \/ IsOccupied(arg.grid, c.gridCol + 1, c.gridRow + 1))

\* A bug one could make: only the anchor's column tested below a horizontal
\* capsule.
CanMoveDownAnchorOnly(c, arg) ==
    IF (IF c.orientation = "horizontal"
        THEN c.gridRow + 1 >= FIELD_HEIGHT
        ELSE c.gridRow + 2 >= FIELD_HEIGHT) THEN FALSE
    ELSE IF ~arg.present THEN TRUE
    ELSE IF c.orientation = "horizontal"
         THEN ~IsOccupied(arg.grid, c.gridCol, c.gridRow + 1)
         ELSE ~IsOccupied(arg.grid, c.gridCol, c.gridRow + 2)

\* Capsule.canMoveDown
CanMoveDown(c, arg) ==
    IF (IF c.orientation = "horizontal"
        THEN c.gridRow + 1 >= FIELD_HEIGHT
        ELSE c.gridRow + 2 >= FIELD_HEIGHT) THEN FALSE
    ELSE IF ~arg.present THEN TRUE
    ELSE IF c.orientation = "horizontal"
         THEN ~(IsOccupied(arg.grid, c.gridCol, c.gridRow + 1)
                \/ IsOccupied(arg.grid, c.gridCol + 1, c.gridRow + 1))
         ELSE ~IsOccupied(arg.grid, c.gridCol, c.gridRow + 2)

\* A bug one could make: the collision test of the target cell left out.
CanRotateBoundsOnly(c, arg) ==
    IF c.orientation = "horizontal"
    THEN ~(c.gridRow + 1 >= FIELD_HEIGHT)
    ELSE ~(c.gridCol + 1 >= FIELD_WIDTH)

\* Capsule.canRotate
CanRotate(c, arg) ==
    LET newCol2 == IF c.orientation = "horizontal" THEN c.gridCol ELSE c.gridCol + 1
        newRow2 == IF c.orientation = "horizontal" THEN c.gridRow + 1 ELSE c.gridRow
    IN  IF c.orientation = "horizontal" /\ newRow2 >= FIELD_HEIGHT THEN FALSE
        ELSE IF c.orientation # "horizontal" /\ newCol2 >= FIELD_WIDTH THEN FALSE
        ELSE IF arg.present /\ IsOccupied(arg.grid, newCol2, newRow2) THEN FALSE
        ELSE TRUE

\* A bug one could make: a query that already makes the move it asks about.
AfterQueryMoved(op, c, arg) ==
    IF op = "canMoveLeft" /\ CanMoveLeft(c, arg)
    THEN UpdateHalfPositions([c EXCEPT !.gridCol = @ - 1])
    ELSE IF op = "canMoveRight" /\ CanMoveRight(c, arg)
    THEN UpdateHalfPositions([c EXCEPT !.gridCol = @ + 1])
    ELSE IF op = "canMoveDown" /\ CanMoveDown(c, arg)
    THEN UpdateHalfPositions([c EXCEPT !.gridRow = @ + 1])
    ELSE IF op = "canRotate" /\ CanRotate(c, arg)
    THEN [c EXCEPT !.gridCol = IF c.orientation = "horizontal" THEN @ ELSE @ + 1,
                   !.gridRow = IF c.orientation = "horizontal" THEN @ + 1 ELSE @]
    ELSE c

\* canMoveLeft, canMoveRight, canMoveDown, canRotate: the capsule after the
\* call.  The four bodies assign to locals only (newCol2, newRow2) and call
\* grid.isOccupied, which reads one cell through get.
AfterQuery(op, c, arg) == c

\* the value a query returns
QueryResult(op, c, arg) ==
    IF op = "canMoveLeft" THEN CanMoveLeft(c, arg)
    ELSE IF op = "canMoveRight" THEN CanMoveRight(c, arg)
    ELSE IF op = "canMoveDown" THEN CanMoveDown(c, arg)
    ELSE CanRotate(c, arg)

\* A bug one could make: the anchor toggled on every rotation.
RotateAlwaysToggle(c, arg) ==
    IF ~CanRotate(c, arg) THEN c
    ELSE UpdateHalfPositions(
            [c EXCEPT !.orientation =
                          IF c.orientation = "horizontal" THEN "vertical" ELSE "horizontal",
                      !.half1IsFirst = ~c.half1IsFirst])

\* A bug one could make: the capsule shifted one column to the left when it
\* comes to lie flat.
RotateKicksLeft(c, arg) ==
    IF ~CanRotate(c, arg) THEN c
    ELSE IF c.orientation = "horizontal"
         THEN UpdateHalfPositions([c EXCEPT !.orientation = "vertical"])
         ELSE UpdateHalfPositions(
                [c EXCEPT !.orientation = "horizontal",
                          !.gridCol = c.gridCol - 1,
                          !.half1IsFirst = ~c.half1IsFirst])

\* A bug one could make: the anchor never toggled (a two-state flip)
RotateNeverToggle(c, arg) ==
    IF ~CanRotate(c, arg) THEN c
    ELSE UpdateHalfPositions(
            [c EXCEPT !.orientation =
                          IF c.orientation = "horizontal" THEN "vertical" ELSE "horizontal"])

\* Capsule.rotate: the capsule after the call
Rotate(c, arg) ==
    IF ~CanRotate(c, arg) THEN c
    ELSE IF c.orientation = "horizontal"
         THEN UpdateHalfPositions([c EXCEPT !.orientation = "vertical"])
         ELSE UpdateHalfPositions(
                [c EXCEPT !.orientation = "horizontal",
                          !.half1IsFirst = ~c.half1IsFirst])

\* Capsule.rotate: the value returned
RotateResult(c, arg) == CanRotate(c, arg)

\* A bug one could make: the move made although the test has failed.
MoveLeftUnchecked(c, arg) == SetGridPosition(c, c.gridCol - 1, c.gridRow)

\* Capsule.moveLeft: the capsule after the call
MoveLeft(c, arg) ==
    IF ~CanMoveLeft(c, arg) THEN c ELSE SetGridPosition(c, c.gridCol - 1, c.gridRow)

\* Capsule.moveLeft: the value returned
MoveLeftResult(c, arg) == CanMoveLeft(c, arg)

\* Capsule.moveRight: the capsule after the call
MoveRight(c, arg) ==
    IF ~CanMoveRight(c, arg) THEN c ELSE SetGridPosition(c, c.gridCol + 1, c.gridRow)

\* Capsule.moveRight: the value returned
MoveRightResult(c, arg) == CanMoveRight(c, arg)

\* A bug one could make: the base row advanced without the halves.
MoveDownStaleHalves(c, arg) ==
    IF ~CanMoveDown(c, arg) THEN c ELSE [c EXCEPT !.gridRow = @ + 1]

\* Capsule.moveDown: the capsule after the call
MoveDown(c, arg) ==
    IF ~CanMoveDown(c, arg) THEN c ELSE SetGridPosition(c, c.gridCol, c.gridRow + 1)

\* Capsule.moveDown: the value returned
MoveDownResult(c, arg) == CanMoveDown(c, arg)

(***************************************************************************)
(* Map<Keys, number>: the entries in insertion order                       *)
(***************************************************************************)
MapHas(m, key) == \E i \in 1 .. Len(m) : m[i].key = key

\* Map.get(key) || 0
MapGetOr0(m, key) ==
    IF MapHas(m, key) THEN m[CHOOSE i \in 1 .. Len(m) : m[i].key = key].value ELSE 0

\* Map.set: an existing key keeps its place, a new key goes last
MapSet(m, key, value) ==
    IF MapHas(m, key)
    THEN [i \in 1 .. Len(m) |-> IF m[i].key = key THEN [key |-> key, value |-> value] ELSE m[i]]
    ELSE Append(m, [key |-> key, value |-> value])

\* Map.delete
MapDelete(m, key) == SelectSeq(m, LAMBDA e : e.key # key)

(***************************************************************************)
(* Math.random(): a stream of values u / 120, read cyclically.  The first  *)
(* twelve values place four pathogens at (0,15), (1,15), (0,14), (1,14).   *)
(* A second stream, of period two, names two cells over and over; its      *)
(* positions follow those of the first.                                    *)
(***************************************************************************)
RandomStream ==
    << 0, 108, 0,   15, 108, 50,   0, 96, 90,   15, 96, 0,
       10, 50,   90, 10,   50, 90,   100, 110 >>

StuckStream == << 0, 119 >>

\* the value at position idx
RandomValue(idx) ==
    IF idx <= Len(RandomStream) THEN RandomStream[idx]
    ELSE StuckStream[idx - Len(RandomStream)]

\* Math.floor(Math.random() * n) for the stream value at position idx
RandomFloor(idx, n) == (RandomValue(idx) * n) \div 120

\* the stream position after k more calls of Math.random()
RandomAdvance(idx, k) ==
    IF idx <= Len(RandomStream)
    THEN ((idx - 1 + k) % Len(RandomStream)) + 1
    ELSE Len(RandomStream)
             + ((idx - Len(RandomStream) - 1 + k) % Len(StuckStream)) + 1

(***************************************************************************)
(* GameScene                                                               *)
(***************************************************************************)
NoCapsule == [kind |-> "null"]

\* The key codes of the engine: Keys.Left and Keys.ArrowLeft are one code
KeyLeft == "ArrowLeft"
KeyRight == "ArrowRight"
KeyDown == "ArrowDown"
KeyUp == "ArrowUp"
KeySpace == "Space"
KeyOther == "KeyP"
Keys == {KeyLeft, KeyRight, KeyDown, KeyUp, KeySpace, KeyOther}

\* The scene as constructed (field initialisers of GameScene), with the
\* environment it runs in: active (it is the engine's current scene),
\* timeouts (pending return-to-menu timers), rngIdx (position in the random
\* stream), created (capsules constructed so far); and the history kept for
\* the properties: lockedCount (capsules locked in this session), placedCount
\* (pathogens placed at its start), landings (capsules locked since the
\* initial state) and, for the handler call made last, before (the falling
\* capsule when it began), landed (the capsules whose downward move failed),
\* spawns (the spawn requests), downs (the calls of moveCapsuleDown that
\* reached moveDown), autoFall (the fall timer and delta met by
\* handleAutomaticFalling past its guard) and fired (the actions requested of
\* the capsule, each with its cause); firedAt (for each held key, the hold
\* time at which its action fired last), tick (the frame delta, where it is
\* constant), gameOvers (runs of handleGameOver since the activation),
\* calls (handler calls counted since the activation), elapsed (frame time counted since the
\* initial state), setup (how generatePathogens ended in the handler call made
\* last) and menu (the level and the speed selected in the menu when the game
\* was started last).
NewScene ==
    [level |-> 0, speed |-> "LOW",
     grid |-> NewGrid,
     currentCapsule |-> NoCapsule,
     keyHeldTime |-> << >>, keyRepeatTime |-> << >>,
     fallTimer |-> 0, fallSpeed |-> SPEEDS.LOW,
     isGameOver |-> FALSE,
     active |-> FALSE, timeouts |-> 0, rngIdx |-> 1, created |-> 0,
     lockedCount |-> 0, placedCount |-> 0,
     before |-> NoCapsule, landed |-> << >>, spawns |-> << >>, landings |-> 0,
     downs |-> << >>, autoFall |-> [ran |-> FALSE],
     fired |-> << >>, firedAt |-> << >>, tick |-> 0,
     gameOvers |-> 0, calls |-> 0, elapsed |-> 0,
     setup |-> [pathogenCount |-> 0, placed |-> 0, attemps |-> 0,
                ended |-> TRUE],
     menu |-> [level |-> 0, speed |-> "LOW"]]

\* A bug one could make: the capsule refused at the spawn cells stays the
\* current capsule of the ended session.
HandleGameOverKeepsCapsule(S) ==
    [S EXCEPT !.isGameOver = TRUE,
              !.currentCapsule = IF @ = NoCapsule THEN @
                                 ELSE [@ EXCEPT !.isFalling = FALSE],
              !.keyHeldTime = << >>,
              !.keyRepeatTime = << >>,
              !.timeouts = @ + 1,
              !.firedAt = << >>,
              !.gameOvers = @ + 1]

\* A bug one could make: game over without the timer that returns to the
\* menu.
HandleGameOverNoTimer(S) ==
    [S EXCEPT !.isGameOver = TRUE,
              !.currentCapsule = NoCapsule,
              !.keyHeldTime = << >>,
              !.keyRepeatTime = << >>,
              !.firedAt = << >>,
              !.gameOvers = @ + 1]

\* GameScene.handleGameOver
HandleGameOver(S) ==
    [S EXCEPT !.isGameOver = TRUE,
              !.currentCapsule = NoCapsule,
              !.keyHeldTime = << >>,
              !.keyRepeatTime = << >>,
              !.timeouts = @ + 1,
              !.firedAt = << >>,
              !.gameOvers = @ + 1]

\* A bug one could make: only the first half's cell tested at spawn.
SpawnNewCapsuleHalf1Only(S) ==
    IF S.isGameOver THEN S
    ELSE LET color1 == RandomFloor(S.rngIdx, 3)
             color2 == RandomFloor(RandomAdvance(S.rngIdx, 1), 3)
             startCol == (FIELD_WIDTH \div 2) - 1
             c == SetGridPosition(
                      NewCapsule(color1, color2, "horizontal", S.created + 1),
                      startCol, 0)
             T == [S EXCEPT !.currentCapsule = c,
                            !.created = @ + 1,
                            !.rngIdx = RandomAdvance(@, 2)]
         IN  IF IsOccupied(T.grid, c.half1.gridCol, c.half1.gridRow)
             THEN HandleGameOver(T)
             ELSE T

\* A bug one could make: the spawn-cell test left out.
SpawnNewCapsuleUnchecked(S) ==
    IF S.isGameOver THEN S
    ELSE LET color1 == RandomFloor(S.rngIdx, 3)
             color2 == RandomFloor(RandomAdvance(S.rngIdx, 1), 3)
             startCol == (FIELD_WIDTH \div 2) - 1
         IN  [S EXCEPT !.currentCapsule =
                           SetGridPosition(
                               NewCapsule(color1, color2, "horizontal", S.created + 1),
                               startCol, 0),
                       !.created = @ + 1,
                       !.rngIdx = RandomAdvance(@, 2)]

\* GameScene.spawnNewCapsule
SpawnNewCapsule(S) ==
    IF S.isGameOver THEN S
    ELSE LET color1 == RandomFloor(S.rngIdx, 3)
             color2 == RandomFloor(RandomAdvance(S.rngIdx, 1), 3)
             startCol == (FIELD_WIDTH \div 2) - 1
             Tested(T, c) ==
                 IF IsOccupied(T.grid, c.half1.gridCol, c.half1.gridRow)
                    \/ IsOccupied(T.grid, c.half2.gridCol, c.half2.gridRow)
                 THEN HandleGameOver(T)
                 ELSE T
             Placed(c) ==
                 Tested([S EXCEPT !.currentCapsule = c,
                                  !.created = @ + 1,
                                  !.rngIdx = RandomAdvance(@, 2)], c)
         IN  Placed(SetGridPosition(
                        NewCapsule(color1, color2, "horizontal", S.created + 1),
                        startCol, 0))

\* History: each call of spawnNewCapsule is logged with what the grid held at
\* (3,0) and (4,0) when it was called, with what isBottleNeckClear() would
\* have returned then, and with its outcome.
SpawnLogged(S) ==
    LET Logged(T) ==
            [T EXCEPT !.spawns = Append(@, [left |-> GridGet(S.grid, 3, 0),
                                            right |-> GridGet(S.grid, 4, 0),
                                            neckClear |-> IsBottleNeckClear(S.grid),
                                            isGameOver |-> T.isGameOver,
                                            capsule |-> T.currentCapsule,
                                            fallTimer |-> T.fallTimer])]
    IN  Logged(SpawnNewCapsule(S))

\* A bug one could make: a landed capsule left in the player's hands, to be
\* locked by a later step.
LandCapsuleDeferred(S) ==
    IF S.currentCapsule = NoCapsule \/ S.isGameOver THEN S
    ELSE S

\* A bug one could make: the second half registered with the first half's
\* colour.
LandCapsuleOneColour(S) ==
    IF S.currentCapsule = NoCapsule \/ S.isGameOver THEN S
    ELSE LET c == [S.currentCapsule EXCEPT !.isFalling = FALSE]
             g1 == GridSet(S.grid, c.half1.gridCol, c.half1.gridRow, c.half1)
             g2 == GridSet(g1, c.half2.gridCol, c.half2.gridRow,
                           [c.half2 EXCEPT !.colorIndex = c.half1.colorIndex])
         IN  SpawnLogged([S EXCEPT !.grid = g2, !.currentCapsule = NoCapsule])

\* A bug one could make: the second half registered at the first half's cell.
LandCapsuleOneCell(S) ==
    IF S.currentCapsule = NoCapsule \/ S.isGameOver THEN S
    ELSE LET c == [S.currentCapsule EXCEPT !.isFalling = FALSE]
             g1 == GridSet(S.grid, c.half1.gridCol, c.half1.gridRow, c.half1)
             g2 == GridSet(g1, c.half1.gridCol, c.half1.gridRow, c.half2)
         IN  SpawnLogged([S EXCEPT !.grid = g2, !.currentCapsule = NoCapsule])

\* GameScene.landCapsule
LandCapsule(S) ==
    IF S.currentCapsule = NoCapsule \/ S.isGameOver THEN S
    ELSE LET c == [S.currentCapsule EXCEPT !.isFalling = FALSE]
             g1 == GridSet(S.grid, c.half1.gridCol, c.half1.gridRow, c.half1)
             g2 == GridSet(g1, c.half2.gridCol, c.half2.gridRow, c.half2)
         IN  SpawnLogged([S EXCEPT !.grid = g2, !.currentCapsule = NoCapsule])

\* GameScene.moveCapsuleLeft
MoveCapsuleLeft(S) ==
    IF S.currentCapsule = NoCapsule \/ S.isGameOver THEN S
    ELSE [S EXCEPT !.currentCapsule = MoveLeft(@, WithGrid(S.grid))]

\* GameScene.moveCapsuleRight
MoveCapsuleRight(S) ==
    IF S.currentCapsule = NoCapsule \/ S.isGameOver THEN S
    ELSE [S EXCEPT !.currentCapsule = MoveRight(@, WithGrid(S.grid))]

\* History: a downward move of the falling capsule has just failed; the
\* capsule is logged as it is at that moment, and counted.
FailedDown(S) ==
    [S EXCEPT !.landed = Append(@, S.currentCapsule),
              !.lockedCount = @ + 1,
              !.landings = @ + 1]

\* History: moveCapsuleDown has called moveDown, with this result; the fall
\* timer is logged as the successful branch leaves it.
DownLogged(S, isSoftDrop, ok) ==
    [S EXCEPT !.downs = Append(@, [soft |-> isSoftDrop, ok |-> ok,
                                   fallTimer |-> S.fallTimer])]

\* GameScene.moveCapsuleDown
MoveCapsuleDown(S, isSoftDrop) ==
    IF S.currentCapsule = NoCapsule \/ S.isGameOver THEN S
    ELSE IF MoveDownResult(S.currentCapsule, WithGrid(S.grid))
         THEN DownLogged([S EXCEPT !.currentCapsule = MoveDown(@, WithGrid(S.grid)),
                                   !.fallTimer = IF isSoftDrop THEN 0 ELSE @],
                         isSoftDrop, TRUE)
         ELSE LandCapsule(FailedDown(DownLogged(S, isSoftDrop, FALSE)))

\* GameScene.rotateCapsule
RotateCapsule(S) ==
    IF S.currentCapsule = NoCapsule \/ S.isGameOver THEN S
    ELSE [S EXCEPT !.currentCapsule = Rotate(@, WithGrid(S.grid))]

\* the guard shared by handleKeyPress, handleHeldKeys, handleAutomaticFalling
NothingFalling(S) ==
    S.currentCapsule = NoCapsule \/ ~S.currentCapsule.isFalling \/ S.isGameOver

\* History: an action is requested of the falling capsule (action: "left",
\* "right", "down" or "rotate"), by a key press or by the repeat of a held
\* key; held is the key's hold time and accum its repeat accumulator at that
\* moment, since the hold time at which the key's action fired before.
FireLogged(S, action, by, held, accum, since) ==
    [S EXCEPT !.fired = Append(@, [action |-> action, by |-> by, held |-> held,
                                   accum |-> accum, since |-> since])]

\* the action bound to a directional key
BoundAction(key) ==
    IF key = KeyLeft THEN "left" ELSE IF key = KeyRight THEN "right" ELSE "down"

\* A bug one could make: the falling capsule written into the grid when the
\* Down key moves it.
HandleKeyPressDownStamps(S, key) ==
    IF NothingFalling(S) THEN S
    ELSE IF key \in {KeyLeft, KeyRight, KeyDown}
         THEN LET T == IF key = KeyLeft THEN MoveCapsuleLeft(S)
                       ELSE IF key = KeyRight THEN MoveCapsuleRight(S)
                       ELSE MoveCapsuleDown(S, FALSE)
                  c == T.currentCapsule
                  g == IF key = KeyDown /\ c # NoCapsule
                       THEN GridSet(GridSet(T.grid, c.half1.gridCol, c.half1.gridRow, c.half1),
                                    c.half2.gridCol, c.half2.gridRow, c.half2)
                       ELSE T.grid
              IN  [T EXCEPT !.grid = g,
                            !.keyHeldTime = MapSet(@, key, 0),
                            !.keyRepeatTime = MapSet(@, key, 0)]
         ELSE IF key \in {KeyUp, KeySpace} THEN RotateCapsule(S)
         ELSE S

\* A bug one could make: the Down key moving the capsule down without the
\* collision test.
HandleKeyPressDownUnchecked(S, key) ==
    IF NothingFalling(S) THEN S
    ELSE IF key \in {KeyLeft, KeyRight, KeyDown}
         THEN LET T == IF key = KeyLeft THEN MoveCapsuleLeft(S)
                       ELSE IF key = KeyRight THEN MoveCapsuleRight(S)
                       ELSE [S EXCEPT !.currentCapsule = MoveDown(@, NoGrid)]
              IN  [T EXCEPT !.keyHeldTime = MapSet(@, key, 0),
                            !.keyRepeatTime = MapSet(@, key, 0)]
         ELSE IF key \in {KeyUp, KeySpace} THEN RotateCapsule(S)
         ELSE S

\* A bug one could make: the rotate keys entered into the held-key tables
\* like the directional keys.
HandleKeyPressRotateHeld(S, key) ==
    IF NothingFalling(S) THEN S
    ELSE IF key \in {KeyLeft, KeyRight, KeyDown}
         THEN LET F == FireLogged(S, BoundAction(key), "press", 0, 0, 0)
                  T == IF key = KeyLeft THEN MoveCapsuleLeft(F)
                       ELSE IF key = KeyRight THEN MoveCapsuleRight(F)
                       ELSE MoveCapsuleDown(F, FALSE)
              IN  [T EXCEPT !.keyHeldTime = MapSet(@, key, 0),
                            !.keyRepeatTime = MapSet(@, key, 0),
                            !.firedAt = MapSet(@, key, 0)]
         ELSE IF key \in {KeyUp, KeySpace}
         THEN [RotateCapsule(FireLogged(S, "rotate", "press", 0, 0, 0))
                  EXCEPT !.keyHeldTime = MapSet(@, key, 0),
                         !.keyRepeatTime = MapSet(@, key, 0)]
         ELSE S

\* A bug one could make: a press of Left, Right or Down starts the fall
\* interval again.
HandleKeyPressResetsTimer(S, key) ==
    IF NothingFalling(S) THEN S
    ELSE IF key \in {KeyLeft, KeyRight, KeyDown}
         THEN LET F == FireLogged(S, BoundAction(key), "press", 0, 0, 0)
                  T == IF key = KeyLeft THEN MoveCapsuleLeft(F)
                       ELSE IF key = KeyRight THEN MoveCapsuleRight(F)
                       ELSE MoveCapsuleDown(F, FALSE)
              IN  [T EXCEPT !.keyHeldTime = MapSet(@, key, 0),
                            !.keyRepeatTime = MapSet(@, key, 0),
                            !.firedAt = MapSet(@, key, 0),
                            !.fallTimer = 0]
         ELSE IF key \in {KeyUp, KeySpace}
         THEN RotateCapsule(FireLogged(S, "rotate", "press", 0, 0, 0))
         ELSE S

\* GameScene.handleKeyPress
HandleKeyPress(S, key) ==
    IF NothingFalling(S) THEN S
    ELSE IF key \in {KeyLeft, KeyRight, KeyDown}
         THEN LET F == FireLogged(S, BoundAction(key), "press", 0, 0, 0)
                  T == IF key = KeyLeft THEN MoveCapsuleLeft(F)
                       ELSE IF key = KeyRight THEN MoveCapsuleRight(F)
                       ELSE MoveCapsuleDown(F, FALSE)
              IN  [T EXCEPT !.keyHeldTime = MapSet(@, key, 0),
                            !.keyRepeatTime = MapSet(@, key, 0),
                            !.firedAt = MapSet(@, key, 0)]
         ELSE IF key \in {KeyUp, KeySpace}
         THEN RotateCapsule(FireLogged(S, "rotate", "press", 0, 0, 0))
         ELSE S

\* GameScene.handleKeyRelease
HandleKeyRelease(S, key) ==
    [S EXCEPT !.keyHeldTime = MapDelete(@, key),
              !.keyRepeatTime = MapDelete(@, key),
              !.firedAt = MapDelete(@, key)]

\* A bug one could make: the hold time compared with the repeat rate instead
\* of the initial delay.
HeldKeyStepShortDelay(S, i, delta) ==
    LET key == S.keyHeldTime[i].key
        newHeldTime == S.keyHeldTime[i].value + delta
        repeatTime == MapGetOr0(S.keyRepeatTime, key)
        S1 == [S EXCEPT !.keyHeldTime = MapSet(@, key, newHeldTime)]
    IN  IF newHeldTime >= INPUT_REPEAT_RATE
        THEN IF repeatTime >= INPUT_REPEAT_RATE
             THEN LET S2 == [S1 EXCEPT !.keyRepeatTime = MapSet(@, key, 0)]
                      F == [FireLogged(S2, BoundAction(key), "repeat", newHeldTime,
                                       repeatTime, MapGetOr0(S.firedAt, key))
                               EXCEPT !.firedAt = MapSet(@, key, newHeldTime)]
                  IN  IF key = KeyLeft THEN MoveCapsuleLeft(F)
                      ELSE IF key = KeyRight THEN MoveCapsuleRight(F)
                      ELSE IF key = KeyDown THEN MoveCapsuleDown(F, TRUE)
                      ELSE S2
             ELSE [S1 EXCEPT !.keyRepeatTime = MapSet(@, key, repeatTime + delta)]
        ELSE S1

\* GameScene.handleHeldKeys: the body of the loop for the i-th held key
HeldKeyStep(S, i, delta) ==
    LET key == S.keyHeldTime[i].key
        newHeldTime == S.keyHeldTime[i].value + delta
        repeatTime == MapGetOr0(S.keyRepeatTime, key)
        S1 == [S EXCEPT !.keyHeldTime = MapSet(@, key, newHeldTime)]
    IN  IF newHeldTime >= INPUT_REPEAT_DELAY
        THEN IF repeatTime >= INPUT_REPEAT_RATE
             THEN LET S2 == [S1 EXCEPT !.keyRepeatTime = MapSet(@, key, 0)]
                      F == [FireLogged(S2, BoundAction(key), "repeat", newHeldTime,
                                       repeatTime, MapGetOr0(S.firedAt, key))
                               EXCEPT !.firedAt = MapSet(@, key, newHeldTime)]
                  IN  IF key = KeyLeft THEN MoveCapsuleLeft(F)
                      ELSE IF key = KeyRight THEN MoveCapsuleRight(F)
                      ELSE IF key = KeyDown THEN MoveCapsuleDown(F, TRUE)
                      ELSE S2
             ELSE [S1 EXCEPT !.keyRepeatTime = MapSet(@, key, repeatTime + delta)]
        ELSE S1

\* GameScene.handleHeldKeys: the loop over the live map, from entry i on
RECURSIVE HeldKeysFrom(_, _, _)
HeldKeysFrom(S, i, delta) ==
    IF i > Len(S.keyHeldTime) THEN S
    ELSE HeldKeysFrom(HeldKeyStep(S, i, delta), i + 1, delta)

\* GameScene.handleHeldKeys
HandleHeldKeys(S, delta) ==
    IF NothingFalling(S) THEN S ELSE HeldKeysFrom(S, 1, delta)

\* History: handleAutomaticFalling has passed its guard with this timer
AutoFallLogged(S, delta) ==
    [S EXCEPT !.autoFall = [ran |-> TRUE, fallTimer |-> S.fallTimer, delta |-> delta]]

\* A bug one could make: the timer reset only after the move was attempted.
HandleAutomaticFallingResetsLate(S, delta) ==
    IF NothingFalling(S) THEN S
    ELSE LET T == AutoFallLogged(S, delta)
         IN  IF T.fallTimer + delta >= T.fallSpeed
             THEN [MoveCapsuleDown([T EXCEPT !.fallTimer = @ + delta], FALSE)
                       EXCEPT !.fallTimer = 0]
             ELSE [T EXCEPT !.fallTimer = @ + delta]

\* A bug one could make: a second drop in a frame as long as two intervals.
HandleAutomaticFallingCatchUp(S, delta) ==
    IF NothingFalling(S) THEN S
    ELSE LET T == AutoFallLogged(S, delta)
         IN  IF T.fallTimer + delta >= 2 * T.fallSpeed
             THEN MoveCapsuleDown(MoveCapsuleDown([T EXCEPT !.fallTimer = 0], FALSE),
                                  FALSE)
             ELSE IF T.fallTimer + delta >= T.fallSpeed
             THEN MoveCapsuleDown([T EXCEPT !.fallTimer = 0], FALSE)
             ELSE [T EXCEPT !.fallTimer = @ + delta]

\* GameScene.handleAutomaticFalling
HandleAutomaticFalling(S, delta) ==
    IF NothingFalling(S) THEN S
    ELSE LET T == AutoFallLogged(S, delta)
         IN  IF T.fallTimer + delta >= T.fallSpeed
             THEN MoveCapsuleDown([T EXCEPT !.fallTimer = 0], FALSE)
             ELSE [T EXCEPT !.fallTimer = @ + delta]

\* A bug one could make: the fall timer still accumulating after game over.
OnPreUpdateTimerRuns(S, delta) ==
    IF S.isGameOver THEN [S EXCEPT !.fallTimer = @ + delta]
    ELSE HandleAutomaticFalling(HandleHeldKeys(S, delta), delta)

\* GameScene.onPreUpdate
OnPreUpdate(S, delta) ==
    IF S.isGameOver THEN S
    ELSE HandleAutomaticFalling(HandleHeldKeys(S, delta), delta)

\* GameScene.cleanupGameObjects
CleanupGameObjects(S) ==
    [S EXCEPT !.currentCapsule = NoCapsule, !.grid = GridClear(@)]

\* GameScene.clearField
ClearField(S) == [S EXCEPT !.grid = GridClear(@)]

\* const maxAttempts = 1000
MaxAttempts == 1000

\* A bug one could make: the loop without its attempt counter.
GeneratePathogensGoesOnUnbounded(L, pathogenCount) ==
    L.placed < pathogenCount

\* GameScene.generatePathogens: the test of the while loop
GeneratePathogensGoesOn(L, pathogenCount) ==
    L.placed < pathogenCount /\ L.attemps < MaxAttempts

\* A bug one could make: a pathogen placed without looking whether the cell
\* has one already.
GeneratePathogensPassOverlapping(L, pathogenCount) ==
    IF ~GeneratePathogensGoesOn(L, pathogenCount) THEN L
    ELSE LET col == RandomFloor(L.rngIdx, FIELD_WIDTH)
             row == RandomFloor(RandomAdvance(L.rngIdx, 1), 10) + 6
             posKey == <<col, row>>
             colorIndex == RandomFloor(RandomAdvance(L.rngIdx, 2), 3)
             pathogen == NewPathogen(colorIndex, col, row)
         IN  [L EXCEPT !.attemps = @ + 1,
                       !.rngIdx = RandomAdvance(@, 3),
                       !.grid = GridSet(@, col, row, pathogen),
                       !.occupiedPositions = @ \cup {posKey},
                       !.placed = @ + 1]

\* GameScene.generatePathogens: one pass of the while loop (L is the loop's
\* state); a loop that has ended stays as it is
GeneratePathogensPass(L, pathogenCount) ==
    IF ~GeneratePathogensGoesOn(L, pathogenCount) THEN L
    ELSE LET col == RandomFloor(L.rngIdx, FIELD_WIDTH)
             row == RandomFloor(RandomAdvance(L.rngIdx, 1), 10) + 6
             posKey == <<col, row>>
         IN  IF posKey \in L.occupiedPositions
             THEN [L EXCEPT !.attemps = @ + 1,
                            !.rngIdx = RandomAdvance(@, 2)]
             ELSE LET colorIndex == RandomFloor(RandomAdvance(L.rngIdx, 2), 3)
                      pathogen == NewPathogen(colorIndex, col, row)
                  IN  [L EXCEPT !.attemps = @ + 1,
                                !.rngIdx = RandomAdvance(@, 3),
                                !.grid = GridSet(@, col, row, pathogen),
                                !.occupiedPositions = @ \cup {posKey},
                                !.placed = @ + 1]

\* n passes of the loop, one after the other (once the loop has ended, the
\* passes left change nothing and are skipped)
RECURSIVE GeneratePathogensPasses(_, _, _)
GeneratePathogensPasses(L, pathogenCount, n) ==
    IF n = 1 THEN GeneratePathogensPass(L, pathogenCount)
    ELSE LET Rest(T) ==
                 IF GeneratePathogensGoesOn(T, pathogenCount)
                 THEN GeneratePathogensPasses(T, pathogenCount, n - (n \div 2))
                 ELSE T
         IN  Rest(GeneratePathogensPasses(L, pathogenCount, n \div 2))

\* the passes the loop is followed for: a loop still going on after them is
\* taken not to end
LoopPasses == MaxAttempts + 24

\* GameScene.generatePathogens: the while loop
GeneratePathogensLoop(L, pathogenCount) ==
    GeneratePathogensPasses(L, pathogenCount, LoopPasses)

\* GameScene.generatePathogens; the history keeps what the loop was asked
\* for and how it ended
GeneratePathogens(S) ==
    LET pathogenCount == PATHOGENS_PER_LEVEL(S.level)
        Ended(L) ==
            [S EXCEPT !.grid = L.grid, !.rngIdx = L.rngIdx,
                      !.placedCount = L.placed,
                      !.setup = [pathogenCount |-> pathogenCount,
                                 placed |-> L.placed, attemps |-> L.attemps,
                                 ended |-> ~GeneratePathogensGoesOn(L, pathogenCount)]]
    IN  Ended(GeneratePathogensLoop(
                  [placed |-> 0, attemps |-> 0, occupiedPositions |-> {},
                   grid |-> S.grid, rngIdx |-> S.rngIdx],
                  pathogenCount))

\* The activation context: a property is a record or Undefined
Undefined == [kind |-> "undefined"]
ActivationData(lvl, spd) == [kind |-> "data", level |-> lvl, speed |-> spd]

\* MainMenuScene.startGame: the options handed to engine.goToScene('game', ...)
StartGameOptions(selectedLevel, selectedSpeed) ==
    [sceneActivationData |-> ActivationData(selectedLevel, selectedSpeed)]

\* A bug one could make: the game-over flag of the earlier session left
\* standing.
OnActivateKeepsGameOver(S, context) ==
    LET S1 == [S EXCEPT !.currentCapsule = NoCapsule,
                        !.keyHeldTime = << >>,
                        !.keyRepeatTime = << >>,
                        !.fallTimer = 0,
                        !.lockedCount = 0,
                        !.firedAt = << >>,
                        !.gameOvers = 0,
                        !.calls = 0]
        S2 == IF context.sceneActivationData # Undefined
              THEN [S1 EXCEPT !.level = context.data.level,
                              !.speed = context.data.speed]
              ELSE S1
        S3 == [S2 EXCEPT !.fallSpeed = SPEEDS[S2.speed]]
    IN  SpawnLogged(GeneratePathogens(ClearField(CleanupGameObjects(S3))))

\* A bug one could make: the held-key tables left as the earlier session had
\* them.
OnActivateKeepsKeys(S, context) ==
    LET S1 == [S EXCEPT !.isGameOver = FALSE,
                        !.currentCapsule = NoCapsule,
                        !.fallTimer = 0,
                        !.lockedCount = 0,
                        !.firedAt = << >>,
                        !.gameOvers = 0,
                        !.calls = 0]
        S2 == IF context.sceneActivationData # Undefined
              THEN [S1 EXCEPT !.level = context.data.level,
                              !.speed = context.data.speed]
              ELSE S1
        S3 == [S2 EXCEPT !.fallSpeed = SPEEDS[S2.speed]]
    IN  SpawnLogged(GeneratePathogens(ClearField(CleanupGameObjects(S3))))

\* GameScene.onActivate
OnActivate(S, context) ==
    LET S1 == [S EXCEPT !.isGameOver = FALSE,
                        !.currentCapsule = NoCapsule,
                        !.keyHeldTime = << >>,
                        !.keyRepeatTime = << >>,
                        !.fallTimer = 0,
                        !.lockedCount = 0,
                        !.firedAt = << >>,
                        !.gameOvers = 0,
                        !.calls = 0]
        S2 == IF context.sceneActivationData # Undefined
              THEN [S1 EXCEPT !.level = context.data.level,
                              !.speed = context.data.speed]
              ELSE S1
        S3 == [S2 EXCEPT !.fallSpeed = SPEEDS[S2.speed]]
    IN  SpawnLogged(GeneratePathogens(ClearField(CleanupGameObjects(S3))))

\* GameScene.onDeactivate
OnDeactivate(S) == CleanupGameObjects(S)

\* The timer set by handleGameOver fires: this.engine.goToScene('mainMenu')
ReturnToMenu(S) ==
    [(IF S.active THEN [OnDeactivate(S) EXCEPT !.active = FALSE] ELSE S)
        EXCEPT !.timeouts = @ - 1]

\* The engine's goToScene(key, options): the scene is activated with a
\* context whose data property carries options.sceneActivationData
SceneActivationContext(options) ==
    [sceneActivationData |-> Undefined, data |-> options.sceneActivationData]

\* engine.goToScene('game', ...) from the menu
GoToGame(S, options) ==
    OnActivate([S EXCEPT !.active = TRUE], SceneActivationContext(options))

(***************************************************************************)
(* One handler call: the history of the call starts empty                  *)
(***************************************************************************)
Begin(S) ==
    [S EXCEPT !.before = S.currentCapsule, !.landed = << >>, !.spawns = << >>,
              !.downs = << >>, !.autoFall = [ran |-> FALSE], !.fired = << >>,
              !.setup = NewScene.setup]

KeyPressCall(S, key) == HandleKeyPress(Begin(S), key)
KeyReleaseCall(S, key) == HandleKeyRelease(Begin(S), key)
PreUpdateCall(S, delta) == OnPreUpdate(Begin(S), delta)
TimeoutCall(S) == ReturnToMenu(Begin(S))
StartGameCall(S, lvl, spd) ==
    GoToGame([Begin(S) EXCEPT !.menu = [level |-> lvl, speed |-> spd]],
             StartGameOptions(lvl, spd))

(***************************************************************************)
(* A session well under way, reached by play: level 0 is started; 54       *)
(* capsules are steered (taps of Left or Right) and dropped (frames of one *)
(* fall interval) so that they fill rows 2 to 15 around the four           *)
(* pathogens; three more are turned upright and locked in rows 0 and 1 of  *)
(* columns 0, 1 and 2.  Rows 0 and 1 of columns 3 to 7 are left free.      *)
(***************************************************************************)
RECURSIVE Taps(_, _, _)
Taps(S, key, n) ==
    IF n = 0 THEN S
    ELSE LET Rest(T) == IF T.created >= 0 THEN Taps(T, key, n - 1) ELSE T
         IN  Rest(KeyReleaseCall(KeyPressCall(S, key), key))

RECURSIVE Frames(_, _)
Frames(S, n) ==
    IF n = 0 THEN S
    ELSE LET Rest(T) == IF T.created >= 0 THEN Frames(T, n - 1) ELSE T
         IN  Rest(PreUpdateCall(S, S.fallSpeed))

\* where the n-th capsule of the play goes: lying in columns col, col + 1 of
\* row row, or upright in rows row, row + 1 of column col
PlayTarget(n) ==
    IF n <= 6
    THEN [col |-> 2 + 2 * ((n - 1) % 3), row |-> 15 - ((n - 1) \div 3),
          upright |-> FALSE]
    ELSE IF n <= 54
    THEN [col |-> 2 * ((n - 7) % 4), row |-> 13 - ((n - 7) \div 4),
          upright |-> FALSE]
    ELSE IF n <= 57
    THEN [col |-> n - 55, row |-> 0, upright |-> TRUE]
    ELSE [col |-> 65 - n, row |-> 0, upright |-> TRUE]

PlayLength == 54 + 3

\* one capsule of the play: turned, steered to its column, dropped and locked
PlayOne(S, n) ==
    LET t == PlayTarget(n)
        Dropped(steered) ==
            IF steered.created >= 0 THEN Frames(steered, t.row + 1) ELSE S
        Steered(turned) ==
            Dropped(IF t.col < 3 THEN Taps(turned, KeyLeft, 3 - t.col)
                    ELSE Taps(turned, KeyRight, t.col - 3))
    IN  Steered(IF t.upright THEN Taps(S, KeyUp, 1) ELSE S)

\* capsules lo .. hi of the play, one after the other
RECURSIVE PlayRange(_, _, _)
PlayRange(S, lo, hi) ==
    IF lo = hi THEN PlayOne(S, lo)
    ELSE LET mid == (lo + hi) \div 2
             Rest(T) == IF T.created >= 0 THEN PlayRange(T, mid + 1, hi) ELSE S
         IN  Rest(PlayRange(S, lo, mid))

Played == PlayRange(StartGameCall(NewScene, 0, "LOW"), 1, PlayLength)

Checkpoint == [Begin(Played) EXCEPT !.landings = 0]

\* The play carried on: three more capsules are turned upright and locked in
\* rows 0 and 1 of columns 7, 6 and 5, which leaves rows 0 and 1 of columns
\* 3 and 4 free.
NarrowCheckpoint ==
    [Begin(PlayRange(Played, PlayLength + 1, PlayLength + 3)) EXCEPT !.landings = 0]

(***************************************************************************)
(* Bounds of the exploration                                               *)
(***************************************************************************)
\* capsules locked after the initial state
MaxLocks == 1
\* keys held down at the same time
MaxHeldKeys == 1
\* how long a key is kept down (ms)
MaxHeldTime == 2000
\* the frame deltas (ms)
FrameDeltas == {1000}

WithinBounds(T) ==
    /\ T.landings <= MaxLocks
    /\ Len(T.keyHeldTime) <= MaxHeldKeys
    /\ \A i \in 1 .. Len(T.keyHeldTime) : T.keyHeldTime[i].value <= MaxHeldTime

(***************************************************************************)
(* State                                                                   *)
(***************************************************************************)
VARIABLES
    level, speed, grid, currentCapsule, keyHeldTime, keyRepeatTime,
    fallTimer, fallSpeed, isGameOver,        \* fields of GameScene
    active, timeouts, rngIdx, created,       \* the scene's environment
    lockedCount, placedCount, before, landed, spawns, landings, downs,
    autoFall, fired, firedAt, tick, gameOvers, calls, elapsed,
    setup, menu, lastOp,                                  \* history
    capsule, capGrid, capOp, capPre, capTurns,   \* a capsule object on its own
    unitGrid, gridOp, gridPre                    \* a grid object on its own

sceneVars ==
    <<level, speed, grid, currentCapsule, keyHeldTime, keyRepeatTime,
      fallTimer, fallSpeed, isGameOver, active, timeouts, rngIdx, created,
      lockedCount, placedCount, before, landed, spawns, landings, downs,
      autoFall, fired, firedAt, tick, gameOvers, calls, elapsed,
      setup, menu, lastOp>>

capsuleVars == <<capsule, capGrid, capOp, capPre, capTurns>>

gridVars == <<unitGrid, gridOp, gridPre>>

unitVars == <<capsuleVars, gridVars>>

vars == <<sceneVars, capsuleVars, gridVars>>

\* the scene object, as a record
Scene ==
    [level |-> level, speed |-> speed, grid |-> grid,
     currentCapsule |-> currentCapsule,
     keyHeldTime |-> keyHeldTime, keyRepeatTime |-> keyRepeatTime,
     fallTimer |-> fallTimer, fallSpeed |-> fallSpeed,
     isGameOver |-> isGameOver,
     active |-> active, timeouts |-> timeouts, rngIdx |-> rngIdx,
     created |-> created,
     lockedCount |-> lockedCount, placedCount |-> placedCount,
     before |-> before, landed |-> landed, spawns |-> spawns,
     landings |-> landings, downs |-> downs, autoFall |-> autoFall,
     fired |-> fired, firedAt |-> firedAt, tick |-> tick,
     gameOvers |-> gameOvers, calls |-> calls,
     elapsed |-> elapsed, setup |-> setup, menu |-> menu]

SceneIs(T) ==
    /\ level = T.level /\ speed = T.speed /\ grid = T.grid
    /\ currentCapsule = T.currentCapsule
    /\ keyHeldTime = T.keyHeldTime /\ keyRepeatTime = T.keyRepeatTime
    /\ fallTimer = T.fallTimer /\ fallSpeed = T.fallSpeed
    /\ isGameOver = T.isGameOver
    /\ active = T.active /\ timeouts = T.timeouts /\ rngIdx = T.rngIdx
    /\ created = T.created
    /\ lockedCount = T.lockedCount /\ placedCount = T.placedCount
    /\ before = T.before /\ landed = T.landed /\ spawns = T.spawns
    /\ landings = T.landings /\ downs = T.downs /\ autoFall = T.autoFall
    /\ fired = T.fired /\ firedAt = T.firedAt /\ tick = T.tick
    /\ gameOvers = T.gameOvers /\ calls = T.calls
    /\ elapsed = T.elapsed /\ setup = T.setup /\ menu = T.menu

SceneBecomes(T) ==
    /\ level' = T.level /\ speed' = T.speed /\ grid' = T.grid
    /\ currentCapsule' = T.currentCapsule
    /\ keyHeldTime' = T.keyHeldTime /\ keyRepeatTime' = T.keyRepeatTime
    /\ fallTimer' = T.fallTimer /\ fallSpeed' = T.fallSpeed
    /\ isGameOver' = T.isGameOver
    /\ active' = T.active /\ timeouts' = T.timeouts /\ rngIdx' = T.rngIdx
    /\ created' = T.created
    /\ lockedCount' = T.lockedCount /\ placedCount' = T.placedCount
    /\ before' = T.before /\ landed' = T.landed /\ spawns' = T.spawns
    /\ landings' = T.landings /\ downs' = T.downs /\ autoFall' = T.autoFall
    /\ fired' = T.fired /\ firedAt' = T.firedAt /\ tick' = T.tick
    /\ gameOvers' = T.gameOvers /\ calls' = T.calls
    /\ elapsed' = T.elapsed /\ setup' = T.setup /\ menu' = T.menu

\* the capsule object of the unit specification, while the scene is explored
IdleCapsule ==
    /\ capsule = NoCapsule /\ capGrid = NoGrid
    /\ capOp = [op |-> "none"] /\ capPre = NoCapsule /\ capTurns = << >>

\* the grid object of the unit specification, while it is not explored
IdleGrid ==
    /\ unitGrid = NewGrid /\ gridOp = [op |-> "none"] /\ gridPre = NewGrid

(***************************************************************************)
(* Spec: the scene in play                                                 *)
(***************************************************************************)
Init ==
    /\ SceneIs(Checkpoint)
    /\ lastOp = "none"
    /\ IdleCapsule
    /\ IdleGrid

\* a key goes down: engine.input.keyboard.on('press', ...)
KeyPress ==
    \E key \in Keys :
        LET T == KeyPressCall(Scene, key)
        IN  /\ WithinBounds(T)
            /\ SceneBecomes(T)
            /\ lastOp' = IF key = KeyLeft THEN "pressLeft"
                         ELSE IF key = KeyRight THEN "pressRight"
                         ELSE IF key = KeyDown THEN "pressDown"
                         ELSE IF key \in {KeyUp, KeySpace} THEN "pressRotate"
                         ELSE "pressOther"
            /\ UNCHANGED unitVars

\* a key goes up: engine.input.keyboard.on('release', ...)
KeyRelease ==
    \E key \in Keys :
        /\ SceneBecomes(KeyReleaseCall(Scene, key))
        /\ lastOp' = "release"
        /\ UNCHANGED unitVars

\* a frame: the engine calls onPreUpdate of its current scene
PreUpdate ==
    \E delta \in FrameDeltas :
        LET T == PreUpdateCall(Scene, delta)
        IN  /\ active
            /\ WithinBounds(T)
            /\ SceneBecomes(T)
            /\ lastOp' = "frame"
            /\ UNCHANGED unitVars

\* the timer set at game over fires
Timeout ==
    /\ timeouts > 0
    /\ SceneBecomes(TimeoutCall(Scene))
    /\ lastOp' = "timeout"
    /\ UNCHANGED unitVars

Next == KeyPress \/ KeyRelease \/ PreUpdate \/ Timeout

Spec == Init /\ [][Next]_vars

(***************************************************************************)
(* SpecTiming: the scene in play with frames shorter than the fall         *)
(* interval, so that the fall timer and the repeat of held keys take their *)
(* intermediate values; the field is nearly full.                          *)
(***************************************************************************)
\* the frame deltas (ms)
TimingDeltas == {300, 700, 2500}

\* a frame shorter than the fall interval
PreUpdateShort ==
    \E delta \in TimingDeltas :
        LET T == PreUpdateCall(Scene, delta)
        IN  /\ active
            /\ WithinBounds(T)
            /\ SceneBecomes(T)
            /\ lastOp' = "frame"
            /\ UNCHANGED unitVars

InitTiming ==
    /\ SceneIs(NarrowCheckpoint)
    /\ lastOp = "none"
    /\ IdleCapsule
    /\ IdleGrid

NextTiming == KeyPress \/ KeyRelease \/ PreUpdateShort \/ Timeout

SpecTiming == InitTiming /\ [][NextTiming]_vars

(***************************************************************************)
(* SpecRepeat: the scene in play with frames of one constant delta, short  *)
(* against the delay and the rate of the key repeat.                       *)
(***************************************************************************)
\* the frame deltas (ms), one of them for the whole run
TickDeltas == {40, 50}

\* the frame time a run takes (ms)
MaxElapsed == 400

\* a frame of the run's delta
PreUpdateTick ==
    LET T == [PreUpdateCall(Scene, tick) EXCEPT !.elapsed = @ + tick]
    IN  /\ active
        /\ WithinBounds(T)
        /\ T.elapsed <= MaxElapsed
        /\ SceneBecomes(T)
        /\ lastOp' = "frame"
        /\ UNCHANGED unitVars

InitRepeat ==
    /\ \E delta \in TickDeltas : SceneIs([NarrowCheckpoint EXCEPT !.tick = delta])
    /\ lastOp = "none"
    /\ IdleCapsule
    /\ IdleGrid

NextRepeat == KeyPress \/ KeyRelease \/ PreUpdateTick \/ Timeout

SpecRepeat == InitRepeat /\ [][NextRepeat]_vars

(***************************************************************************)
(* SpecSession: sessions from the menu.  The game is as loaded (the menu   *)
(* showing, the game scene constructed) or well under way; a session that  *)
(* ends returns to the menu, where the next one is started.  Sessions are  *)
(* followed for their first handler calls.                                 *)
(***************************************************************************)
\* the level and the speed selected in the menu
MenuLevels == {0, 20}
MenuSpeeds == {"LOW", "HIGH"}

\* where Math.random() stands when a session is started
Seeds == {1, 7, Len(RandomStream) + 1}

\* handler calls followed after an activation
MaxCalls == 3

Counted(T) == [T EXCEPT !.calls = @ + 1]

PressOp(key) ==
    IF key = KeyLeft THEN "pressLeft"
    ELSE IF key = KeyRight THEN "pressRight"
    ELSE IF key = KeyDown THEN "pressDown"
    ELSE IF key \in {KeyUp, KeySpace} THEN "pressRotate"
    ELSE "pressOther"

\* the start button of the menu is clicked: MainMenuScene.startGame
StartGame ==
    \E lvl \in MenuLevels : \E spd \in MenuSpeeds : \E seed \in Seeds :
        /\ ~active
        /\ SceneBecomes(StartGameCall([Scene EXCEPT !.rngIdx = seed], lvl, spd))
        /\ lastOp' = "startGame"
        /\ UNCHANGED unitVars

SessionKeyPress ==
    \E key \in Keys :
        LET T == Counted(KeyPressCall(Scene, key))
        IN  /\ T.calls <= MaxCalls
            /\ WithinBounds(T)
            /\ SceneBecomes(T)
            /\ lastOp' = PressOp(key)
            /\ UNCHANGED unitVars

SessionKeyRelease ==
    \E key \in Keys :
        LET T == Counted(KeyReleaseCall(Scene, key))
        IN  /\ T.calls <= MaxCalls
            /\ SceneBecomes(T)
            /\ lastOp' = "release"
            /\ UNCHANGED unitVars

SessionPreUpdate ==
    \E delta \in FrameDeltas :
        LET T == Counted(PreUpdateCall(Scene, delta))
        IN  /\ active
            /\ T.calls <= MaxCalls
            /\ WithinBounds(T)
            /\ SceneBecomes(T)
            /\ lastOp' = "frame"
            /\ UNCHANGED unitVars

InitSession ==
    /\ SceneIs(NewScene) \/ SceneIs(NarrowCheckpoint)
    /\ lastOp = "none"
    /\ IdleCapsule
    /\ IdleGrid

NextSession ==
    StartGame \/ SessionKeyPress \/ SessionKeyRelease \/ SessionPreUpdate \/ Timeout

SpecSession == InitSession /\ [][NextSession]_vars

\* the timer set by handleGameOver does fire
SpecSessionLive == SpecSession /\ WF_vars(Timeout)

(***************************************************************************)
(* SpecFall: the last capsules of a session.  Frames come whatever the     *)
(* scene holds, as the engine sends them; only the player is limited (in   *)
(* the keys held at a time).  The frames are fair: the engine calls        *)
(* onPreUpdate of its current scene on every tick of its clock.            *)
(***************************************************************************)
\* the frame deltas (ms)
FallDeltas == {400, 1000}

\* a frame, unconditionally
PreUpdateFall ==
    \E delta \in FallDeltas :
        /\ active
        /\ SceneBecomes(PreUpdateCall(Scene, delta))
        /\ lastOp' = "frame"
        /\ UNCHANGED unitVars

InitFall ==
    /\ SceneIs(NarrowCheckpoint)
    /\ lastOp = "none"
    /\ IdleCapsule
    /\ IdleGrid

NextFall == KeyPress \/ KeyRelease \/ PreUpdateFall \/ Timeout

SpecFall == InitFall /\ [][NextFall]_vars

\* a session in play, where a frame always changes the scene (the fall timer
\* or the capsule)
FrameDue == active /\ ~isGameOver

\* Time keeps advancing: weak fairness of the frames while a session is in
\* play.  WF_vars(PreUpdateFall) is []<>~ENABLED <<PreUpdateFall>>_vars \/
\* []<><<PreUpdateFall>>_vars, and FrameDue implies ENABLED
\* <<PreUpdateFall>>_vars; the condition is written with FrameDue, which is
\* the weaker assumption, and with the mark a frame leaves in lastOp.
FramesFair == []<>~FrameDue \/ []<><<lastOp' = "frame">>_vars

SpecFallLive == SpecFall /\ FramesFair

(***************************************************************************)
(* SpecCapsule: a Capsule object on its own, driven through its public     *)
(* operations with and without a grid.  The scene stays as constructed.    *)
(***************************************************************************)
\* a grid to collide with
TestGrid ==
    GridSet(GridSet(GridSet(GridSet(GridSet(NewGrid,
        3, 5, NewPathogen(0, 3, 5)),
        0, 7, NewPathogen(1, 0, 7)),
        6, 9, NewPathogen(2, 6, 9)),
        7, 9, NewPathogen(0, 7, 9)),
        4, 15, NewPathogen(1, 4, 15))

\* the colours a capsule is constructed with
TestColors == {<<0, 1>>, <<1, 0>>, <<2, 2>>}

\* the coordinates handed to setGridPosition, some of them off the field
TestCols == {-1, 3, FIELD_WIDTH}
TestRows == {-1, 4, FIELD_HEIGHT}

InitCapsule ==
    /\ SceneIs(NewScene)
    /\ lastOp = "none"
    /\ \E colors \in TestColors : \E o \in Orientations :
           capsule = NewCapsule(colors[1], colors[2], o, 0)
    /\ capGrid = WithGrid(TestGrid)
    /\ capOp = [op |-> "new"]
    /\ capPre = NoCapsule
    /\ capTurns = << >>
    /\ IdleGrid

\* the capsules seen before each of the successful rotations made in a row
\* up to now (the last four of them)
TurnsAfter(op, ok) ==
    IF op = "rotate" /\ ok
    THEN IF Len(capTurns) < 4 THEN Append(capTurns, capsule)
         ELSE Append(Tail(capTurns), capsule)
    ELSE << >>

CapsuleCall(op, arg, ok, after) ==
    /\ capsule' = after
    /\ capOp' = [op |-> op, withGrid |-> arg.present, ok |-> ok]
    /\ capPre' = capsule
    /\ capTurns' = TurnsAfter(op, ok)
    /\ UNCHANGED <<capGrid, sceneVars, gridVars>>

CapSetGridPosition ==
    \E col \in TestCols : \E row \in TestRows :
        /\ capsule' = SetGridPosition(capsule, col, row)
        /\ capOp' = [op |-> "setGridPosition"]
        /\ capPre' = NoCapsule
        /\ capTurns' = << >>
        /\ UNCHANGED <<capGrid, sceneVars, gridVars>>

CapMoveLeft ==
    \E arg \in {NoGrid, capGrid} :
        CapsuleCall("moveLeft", arg, MoveLeftResult(capsule, arg), MoveLeft(capsule, arg))

CapMoveRight ==
    \E arg \in {NoGrid, capGrid} :
        CapsuleCall("moveRight", arg, MoveRightResult(capsule, arg), MoveRight(capsule, arg))

CapMoveDown ==
    \E arg \in {NoGrid, capGrid} :
        CapsuleCall("moveDown", arg, MoveDownResult(capsule, arg), MoveDown(capsule, arg))

CapRotate ==
    \E arg \in {NoGrid, capGrid} :
        CapsuleCall("rotate", arg, RotateResult(capsule, arg), Rotate(capsule, arg))

\* the four queries of Capsule
QueryOps == {"canMoveLeft", "canMoveRight", "canMoveDown", "canRotate"}

CapQuery ==
    \E op \in QueryOps : \E arg \in {NoGrid, capGrid} :
        CapsuleCall(op, arg, QueryResult(op, capsule, arg), AfterQuery(op, capsule, arg))

NextCapsule ==
    \/ CapSetGridPosition \/ CapMoveLeft \/ CapMoveRight \/ CapMoveDown \/ CapRotate
    \/ CapQuery

SpecCapsule == InitCapsule /\ [][NextCapsule]_vars

(***************************************************************************)
(* SpecGrid: a GameGrid object on its own, driven through set, remove,     *)
(* clear and its queries, with coordinates on, at and off the edges of the *)
(* field.  The scene stays as constructed.                                 *)
(***************************************************************************)
GridCols == {-1, 0, FIELD_WIDTH - 1, FIELD_WIDTH}
GridRows == {-1, 0, FIELD_HEIGHT - 1, FIELD_HEIGHT}

\* what is handed to set: a pathogen, a capsule half or null
GridContents == {NewPathogen(1, 0, 0), NewCapsuleHalf(2, 1, 1), Null}

InitGrid ==
    /\ SceneIs(NewScene)
    /\ lastOp = "none"
    /\ IdleCapsule
    /\ unitGrid = NewGrid
    /\ gridOp = [op |-> "new"]
    /\ gridPre = NewGrid

GridSetCall ==
    \E col \in GridCols : \E row \in GridRows : \E content \in GridContents :
        /\ unitGrid' = GridSet(unitGrid, col, row, content)
        /\ gridOp' = [op |-> "set", col |-> col, row |-> row,
                      content |-> content,
                      result |-> GridSetResult(unitGrid, col, row, content)]
        /\ gridPre' = unitGrid
        /\ UNCHANGED <<sceneVars, capsuleVars>>

GridRemoveCall ==
    \E col \in GridCols : \E row \in GridRows :
        /\ unitGrid' = GridRemove(unitGrid, col, row)
        /\ gridOp' = [op |-> "remove", col |-> col, row |-> row,
                      result |-> GridRemoveResult(unitGrid, col, row)]
        /\ gridPre' = unitGrid
        /\ UNCHANGED <<sceneVars, capsuleVars>>

GridClearCall ==
    /\ unitGrid' = GridClear(unitGrid)
    /\ gridOp' = [op |-> "clear"]
    /\ gridPre' = unitGrid
    /\ UNCHANGED <<sceneVars, capsuleVars>>

\* get, isOccupied and isEmpty asked of one cell
GridQueryCall ==
    \E col \in GridCols : \E row \in GridRows :
        /\ gridOp' = [op |-> "query", col |-> col, row |-> row,
                      get |-> GridGet(unitGrid, col, row),
                      isOccupied |-> IsOccupied(unitGrid, col, row),
                      isEmpty |-> IsEmpty(unitGrid, col, row)]
        /\ gridPre' = unitGrid
        /\ UNCHANGED <<unitGrid, sceneVars, capsuleVars>>

NextGrid == GridSetCall \/ GridRemoveCall \/ GridClearCall \/ GridQueryCall

SpecGrid == InitGrid /\ [][NextGrid]_vars

(***************************************************************************)
(* Properties of the capsule (SpecCapsule)                                 *)
(***************************************************************************)
AnchorHalf(c) == IF c.half1IsFirst THEN c.half1 ELSE c.half2
OtherHalf(c) == IF c.half1IsFirst THEN c.half2 ELSE c.half1
CellOf(h) == <<h.gridCol, h.gridRow>>
Distance(a, b) ==
    (IF a[1] >= b[1] THEN a[1] - b[1] ELSE b[1] - a[1])
    + (IF a[2] >= b[2] THEN a[2] - b[2] ELSE b[2] - a[2])
MoveOps == {"moveLeft", "moveRight", "moveDown"}
SucceededRotate == capOp.op = "rotate" /\ capOp.ok

\* C1: in every state of a capsule (after construction, setGridPosition and
\* any successful or rejected moves and rotations) its two halves are in
\* distinct cells at Manhattan distance 1: the anchor half is at
\* (gridCol, gridRow) and the other half at (gridCol + 1, gridRow) when the
\* capsule is horizontal, at (gridCol, gridRow + 1) when it is vertical.
C1_HalvesOneTileApart ==
    /\ CellOf(AnchorHalf(capsule)) = <<capsule.gridCol, capsule.gridRow>>
    /\ CellOf(OtherHalf(capsule)) =
           IF capsule.orientation = "horizontal"
           THEN <<capsule.gridCol + 1, capsule.gridRow>>
           ELSE <<capsule.gridCol, capsule.gridRow + 1>>
    /\ CellOf(capsule.half1) # CellOf(capsule.half2)
    /\ Distance(CellOf(capsule.half1), CellOf(capsule.half2)) = 1
    /\ capsule.orientation = "horizontal" =>
           capsule.half1.gridRow = capsule.half2.gridRow
    /\ capsule.orientation = "vertical" =>
           capsule.half1.gridCol = capsule.half2.gridCol

\* a vertical capsule anchored at half2 (so it has been rotated) whose
\* downward move has just been rejected
C1_Witness ==
    /\ capOp.op = "moveDown" /\ ~capOp.ok
    /\ capsule.orientation = "vertical" /\ ~capsule.half1IsFirst

\* C7 as stated: two successful rotations in a row, made from a horizontal
\* capsule with half1 at (c, r) and half2 at (c + 1, r), bring both halves
\* back to the cells they had.
C7_TwoRotationsRestore ==
    (Len(capTurns) >= 2
        /\ capTurns[Len(capTurns) - 1].orientation = "horizontal"
        /\ capTurns[Len(capTurns) - 1].half1IsFirst)
    => LET start == capTurns[Len(capTurns) - 1]
       IN  /\ CellOf(capsule.half1) = CellOf(start.half1)
           /\ CellOf(capsule.half2) = CellOf(start.half2)

\* C7: two successful rotations in a row, made from a horizontal capsule with
\* half1 (colour a) at (c, r) and half2 (colour b) at (c + 1, r), leave the
\* capsule horizontal on the same two cells with the halves exchanged: half2
\* (colour b) is at (c, r) and half1 (colour a) at (c + 1, r).
C7_TwoRotationsExchange ==
    (Len(capTurns) >= 2
        /\ capTurns[Len(capTurns) - 1].orientation = "horizontal"
        /\ capTurns[Len(capTurns) - 1].half1IsFirst)
    => LET start == capTurns[Len(capTurns) - 1]
       IN  /\ capsule.orientation = "horizontal"
           /\ CellOf(capsule.half2) = CellOf(start.half1)
           /\ CellOf(capsule.half1) = CellOf(start.half2)
           /\ capsule.half1.colorIndex = start.half1.colorIndex
           /\ capsule.half2.colorIndex = start.half2.colorIndex

\* two rotations in a row have succeeded from such a capsule of two colours
C7_Witness ==
    /\ Len(capTurns) >= 2
    /\ capTurns[Len(capTurns) - 1].orientation = "horizontal"
    /\ capTurns[Len(capTurns) - 1].half1IsFirst
    /\ capsule.half1.colorIndex # capsule.half2.colorIndex

\* C8 as stated: on a successful rotation from vertical to horizontal the half
\* that was at the base cell (gridCol, gridRow) is still there, and the other
\* half moves from (gridCol, gridRow + 1) to (gridCol + 1, gridRow).
C8_PivotStays ==
    (SucceededRotate /\ capPre.orientation = "vertical")
    => LET pivot == IF capPre.half1IsFirst THEN capsule.half1 ELSE capsule.half2
           other == IF capPre.half1IsFirst THEN capsule.half2 ELSE capsule.half1
       IN  /\ CellOf(OtherHalf(capPre)) = <<capPre.gridCol, capPre.gridRow + 1>>
           /\ CellOf(pivot) = <<capPre.gridCol, capPre.gridRow>>
           /\ CellOf(other) = <<capPre.gridCol + 1, capPre.gridRow>>

\* C8: on a successful rotation from vertical to horizontal the base cell
\* (gridCol, gridRow) is unchanged and the halves exchange roles: the half
\* that was below, at (gridCol, gridRow + 1), moves to the base cell and
\* becomes the anchor, and the half that was at the base cell moves to
\* (gridCol + 1, gridRow).
C8_LowerHalfTakesBase ==
    (SucceededRotate /\ capPre.orientation = "vertical")
    => LET upper == IF capPre.half1IsFirst THEN capsule.half1 ELSE capsule.half2
           lower == IF capPre.half1IsFirst THEN capsule.half2 ELSE capsule.half1
       IN  /\ CellOf(OtherHalf(capPre)) = <<capPre.gridCol, capPre.gridRow + 1>>
           /\ capsule.gridCol = capPre.gridCol /\ capsule.gridRow = capPre.gridRow
           /\ CellOf(lower) = <<capPre.gridCol, capPre.gridRow>>
           /\ AnchorHalf(capsule) = lower
           /\ CellOf(upper) = <<capPre.gridCol + 1, capPre.gridRow>>

\* a vertical capsule anchored at half2 has just been rotated against the grid
C8_Witness ==
    /\ SucceededRotate /\ capOp.withGrid
    /\ capPre.orientation = "vertical" /\ ~capPre.half1IsFirst

\* C9: a successful rotation flips the orientation, leaves gridCol and gridRow
\* unchanged and toggles the anchor flag exactly when it goes from vertical to
\* horizontal; going from horizontal to vertical the anchor half keeps its
\* cell and the other half moves from (gridCol + 1, gridRow) to
\* (gridCol, gridRow + 1).  No move changes the orientation or the anchor flag.
C9_RotateAndMoveEffects ==
    /\ SucceededRotate =>
           /\ capsule.orientation # capPre.orientation
           /\ capsule.gridCol = capPre.gridCol
           /\ capsule.gridRow = capPre.gridRow
           /\ (capsule.half1IsFirst # capPre.half1IsFirst)
                  <=> capPre.orientation = "vertical"
           /\ capPre.orientation = "horizontal" =>
                  /\ capsule.half1IsFirst = capPre.half1IsFirst
                  /\ CellOf(AnchorHalf(capsule)) = CellOf(AnchorHalf(capPre))
                  /\ CellOf(OtherHalf(capPre)) = <<capPre.gridCol + 1, capPre.gridRow>>
                  /\ CellOf(OtherHalf(capsule)) = <<capPre.gridCol, capPre.gridRow + 1>>
    /\ capOp.op \in MoveOps =>
           /\ capsule.orientation = capPre.orientation
           /\ capsule.half1IsFirst = capPre.half1IsFirst

\* a horizontal capsule anchored at half2 has just been rotated to vertical
C9_Witness ==
    /\ SucceededRotate
    /\ capPre.orientation = "horizontal" /\ ~capPre.half1IsFirst
    /\ capsule.orientation = "vertical"

\* the grid argument of the call made last
LastArg == IF capOp.withGrid THEN capGrid ELSE NoGrid
\* both cells of capsule c, shifted by (dc, dr), are in the field and free
FootprintFree(c, dc, dr) ==
    /\ InBounds(c.half1.gridCol + dc, c.half1.gridRow + dr)
    /\ InBounds(c.half2.gridCol + dc, c.half2.gridRow + dr)
    /\ ~IsOccupied(capGrid.grid, c.half1.gridCol + dc, c.half1.gridRow + dr)
    /\ ~IsOccupied(capGrid.grid, c.half2.gridCol + dc, c.half2.gridRow + dr)
\* the single cell a rotation of c needs
RotateTarget(c) ==
    IF c.orientation = "horizontal" THEN <<c.gridCol, c.gridRow + 1>>
    ELSE <<c.gridCol + 1, c.gridRow>>

\* C11: for a capsule inside the field that overlaps no occupied cell,
\* canMoveLeft, canMoveRight and canMoveDown are true exactly when both of
\* its cells shifted by (-1, 0), (+1, 0), (0, +1) are inside the field and
\* free in the grid; a horizontal capsule at gridCol = 6 fails canMoveRight on
\* any grid, and canMoveDown is false when a cell right below one of the
\* capsule's lowest cells is occupied.
C11_MoveTestsEqualFootprint ==
    /\ FootprintFree(capsule, 0, 0) =>
           /\ CanMoveLeft(capsule, capGrid) <=> FootprintFree(capsule, -1, 0)
           /\ CanMoveRight(capsule, capGrid) <=> FootprintFree(capsule, 1, 0)
           /\ CanMoveDown(capsule, capGrid) <=> FootprintFree(capsule, 0, 1)
           /\ LET low == IF capsule.orientation = "horizontal"
                         THEN {CellOf(capsule.half1), CellOf(capsule.half2)}
                         ELSE {<<capsule.gridCol, capsule.gridRow + 1>>}
              IN  (\E cell \in low : IsOccupied(capGrid.grid, cell[1], cell[2] + 1))
                      => ~CanMoveDown(capsule, capGrid)
    /\ (capsule.orientation = "horizontal" /\ capsule.gridCol = FIELD_WIDTH - 2) =>
           /\ ~CanMoveRight(capsule, capGrid)
           /\ ~CanMoveRight(capsule, NoGrid)

\* a horizontal capsule on free cells has been refused a downward move by a
\* pathogen under its second half alone
C11_Witness ==
    /\ capOp.op = "moveDown" /\ capOp.withGrid /\ ~capOp.ok
    /\ capsule.orientation = "horizontal"
    /\ FootprintFree(capsule, 0, 0)
    /\ ~IsOccupied(capGrid.grid, capsule.gridCol, capsule.gridRow + 1)
    /\ IsOccupied(capGrid.grid, capsule.gridCol + 1, capsule.gridRow + 1)

C13_RejectedRequestChangesNothing ==
    capOp.op \in MoveOps \cup {"rotate"} =>
        /\ ~capOp.ok => capsule = capPre
        /\ (capOp.withGrid /\ FootprintFree(capPre, 0, 0)) =>
               /\ (capOp.op = "moveLeft" /\ ~FootprintFree(capPre, -1, 0)) => ~capOp.ok
               /\ (capOp.op = "moveRight" /\ ~FootprintFree(capPre, 1, 0)) => ~capOp.ok
               /\ (capOp.op = "moveDown" /\ ~FootprintFree(capPre, 0, 1)) => ~capOp.ok
               /\ (capOp.op = "rotate"
                      /\ (~InBounds(RotateTarget(capPre)[1], RotateTarget(capPre)[2])
                          \/ IsOccupied(capGrid.grid, RotateTarget(capPre)[1],
                                        RotateTarget(capPre)[2])))
                      => ~capOp.ok

\* a move to the left into a pathogen has been refused
C13_Witness ==
    /\ capOp.op = "moveLeft" /\ capOp.withGrid /\ ~capOp.ok
    /\ FootprintFree(capPre, 0, 0)
    /\ capPre.gridCol > 0
    /\ capsule = capPre

\* C14: moveLeft, moveRight and moveDown return true exactly when the test of
\* the same name is true before the call, and then change the base coordinate
\* by one step (gridCol - 1, gridCol + 1, gridRow + 1) and each half's
\* coordinates by that same step, and nothing else.
C14_MoveIsOneStep ==
    capOp.op \in MoveOps =>
        LET dc == IF capOp.op = "moveLeft" THEN -1
                  ELSE IF capOp.op = "moveRight" THEN 1 ELSE 0
            dr == IF capOp.op = "moveDown" THEN 1 ELSE 0
            can == IF capOp.op = "moveLeft" THEN CanMoveLeft(capPre, LastArg)
                   ELSE IF capOp.op = "moveRight" THEN CanMoveRight(capPre, LastArg)
                   ELSE CanMoveDown(capPre, LastArg)
        IN  /\ capOp.ok <=> can
            /\ capOp.ok =>
                   capsule = [capPre EXCEPT !.gridCol = @ + dc,
                                            !.gridRow = @ + dr,
                                            !.half1.gridCol = @ + dc,
                                            !.half1.gridRow = @ + dr,
                                            !.half2.gridCol = @ + dc,
                                            !.half2.gridRow = @ + dr]

\* an upright capsule anchored at half2 has moved down one row
C14_Witness ==
    /\ capOp.op = "moveDown" /\ capOp.ok
    /\ capPre.orientation = "vertical" /\ ~capPre.half1IsFirst
    /\ capsule.gridRow = capPre.gridRow + 1

(***************************************************************************)
(* Properties of the scene in play (Spec)                                  *)
(***************************************************************************)
Falling == currentCapsule # NoCapsule
PressOps == {"pressLeft", "pressRight", "pressDown", "pressRotate", "pressOther"}

\* C2: in a session, where capsules enter at (3, 0)-(4, 0), both halves of
\* the falling capsule are inside the field in every reachable state.
C2_FallingCapsuleInField ==
    Falling =>
        /\ InBounds(currentCapsule.half1.gridCol, currentCapsule.half1.gridRow)
        /\ InBounds(currentCapsule.half2.gridCol, currentCapsule.half2.gridRow)

\* Right has been pressed with the falling capsule lying against the right wall
C2_Witness ==
    /\ lastOp = "pressRight" /\ Falling
    /\ before = currentCapsule
    /\ currentCapsule.orientation = "horizontal"
    /\ currentCapsule.gridCol = FIELD_WIDTH - 2

\* C3: in every reachable state with a falling capsule, neither of the two
\* cells it covers is occupied in the grid.
C3_FallingCapsuleOnFreeCells ==
    Falling =>
        /\ ~IsOccupied(grid, currentCapsule.half1.gridCol, currentCapsule.half1.gridRow)
        /\ ~IsOccupied(grid, currentCapsule.half2.gridCol, currentCapsule.half2.gridRow)

\* after an earlier capsule has locked, the next one has been turned
\* upright
C3_Witness ==
    /\ landings >= 1 /\ landed = << >> /\ Falling
    /\ lastOp = "pressRotate"
    /\ currentCapsule.orientation = "vertical"
    /\ before.orientation = "horizontal"

\* C4: when a downward move fails with the capsule's halves at cells A and B,
\* then once the handler is done the grid holds exactly those two halves at
\* A and B, and that capsule is no longer the falling capsule.
C4_FailedDownLocksInPlace ==
    \A i \in 1 .. Len(landed) :
        LET c == landed[i]
        IN  /\ GridGet(grid, c.half1.gridCol, c.half1.gridRow) = c.half1
            /\ GridGet(grid, c.half2.gridCol, c.half2.gridRow) = c.half2
            /\ Falling => currentCapsule.id # c.id

\* the fall timer has just locked an upright capsule
C4_Witness ==
    /\ lastOp = "frame"
    /\ Len(landed) = 1
    /\ landed[1].orientation = "vertical"

\* C5: a spawn request ends in game over exactly when (3, 0) or (4, 0) is
\* occupied at that time; then there is no falling capsule.  Otherwise a new
\* capsule is accepted, horizontal at (3, 0)-(4, 0).
C5_SpawnOrGameOver ==
    /\ isGameOver => ~Falling
    /\ \A i \in 1 .. Len(spawns) :
           LET sp == spawns[i]
           IN  /\ sp.isGameOver <=> (sp.left # Null \/ sp.right # Null)
               /\ sp.isGameOver => sp.capsule = NoCapsule
               /\ ~sp.isGameOver =>
                      /\ sp.capsule # NoCapsule
                      /\ sp.capsule.isFalling
                      /\ sp.capsule.orientation = "horizontal"
                      /\ CellOf(sp.capsule.half1) = <<3, 0>>
                      /\ CellOf(sp.capsule.half2) = <<4, 0>>

\* a spawn request met (3, 0) occupied and (4, 0) free
C5_Witness ==
    /\ Len(spawns) = 1
    /\ spawns[1].left # Null /\ spawns[1].right = Null
    /\ isGameOver

\* C6: once the game is over, no key press, key release or frame changes a
\* cell of the grid, creates or moves a capsule, or advances the fall timer.
C6_GameOverFreezes ==
    [][(isGameOver /\ lastOp' \in PressOps \cup {"release", "frame"})
          => /\ grid' = grid
             /\ currentCapsule' = currentCapsule
             /\ created' = created
             /\ fallTimer' = fallTimer
             /\ isGameOver']_vars

\* a frame has run while the game was already over
C6_Witness ==
    /\ isGameOver /\ active
    /\ lastOp = "frame"
    /\ spawns = << >>

\* the steps that press Left, Right or a rotation key
SteerOps == {"pressLeft", "pressRight", "pressRotate"}
\* no cell of the grid holds a half of the falling capsule
FallingCapsuleOffGrid ==
    Falling => \A cell \in Cells :
                   grid[cell].kind = "half" => grid[cell].owner # currentCapsule.id
\* every capsule half in the grid stays in its cell, unchanged
LockedHalvesStay ==
    \A cell \in Cells : grid[cell].kind = "half" => grid'[cell] = grid[cell]

\* C15: no move or rotation of the falling capsule, accepted or rejected,
\* changes a cell of the grid; during play the grid changes only when a
\* capsule locks or the field is cleaned up, so the cells of the falling
\* capsule never hold it in the grid before it locks.
C15_GridWrittenOnlyByController ==
    [][/\ (lastOp' \in PressOps /\ landed' = << >>) => grid' = grid
       /\ grid' # grid => (landed' # << >> \/ lastOp' = "timeout")
       /\ FallingCapsuleOffGrid']_vars

\* the falling capsule has just moved one column to the left
C15_Witness ==
    /\ lastOp = "pressLeft" /\ Falling /\ before # NoCapsule
    /\ currentCapsule.id = before.id
    /\ currentCapsule.gridCol = before.gridCol - 1

\* C16: a failed downward move of the falling capsule, whether made by the
\* fall timer, by a press of Down or by a repeat of a held Down, locks the
\* capsule within the same step; and no later move left, move right or
\* rotation changes the coordinates of a locked capsule's halves.
C16_LockHasNoGracePeriod ==
    [][/\ Len(SelectSeq(downs', LAMBDA d : ~d.ok)) = Len(landed')
       /\ landed' # << >> =>
              /\ Falling /\ landed'[1].id = currentCapsule.id
              /\ lastOp' \in {"frame", "pressDown"}
       /\ \A i \in 1 .. Len(landed') :
              LET c == landed'[i]
              IN  /\ grid'[CellOf(c.half1)] = c.half1
                  /\ grid'[CellOf(c.half2)] = c.half2
                  /\ Falling' => currentCapsule'.id # c.id
       /\ lastOp' \in SteerOps => LockedHalvesStay]_vars

\* a repeat of the held Down key has failed and locked the capsule
C16_Witness ==
    /\ lastOp = "frame"
    /\ Len(downs) >= 1 /\ downs[1].soft /\ ~downs[1].ok
    /\ Len(landed) >= 1

\* C17: every accepted spawn yields a horizontal falling capsule with half1
\* as anchor at (FIELD_WIDTH / 2 - 1, 0) = (3, 0), half2 at (4, 0) and both
\* colour indices in {0, 1, 2}; the colour of a half never changes afterwards.
C17_SpawnedCapsuleShape ==
    [][/\ \A i \in 1 .. Len(spawns') :
              LET c == spawns'[i].capsule
              IN  c # NoCapsule =>
                      /\ c.orientation = "horizontal" /\ c.isFalling
                      /\ c.half1IsFirst
                      /\ c.gridCol = (FIELD_WIDTH \div 2) - 1 /\ c.gridRow = 0
                      /\ CellOf(c.half1) = <<3, 0>> /\ CellOf(c.half2) = <<4, 0>>
                      /\ c.half1.colorIndex \in {0, 1, 2}
                      /\ c.half2.colorIndex \in {0, 1, 2}
       /\ (Falling /\ Falling' /\ currentCapsule'.id = currentCapsule.id) =>
              /\ currentCapsule'.half1.colorIndex = currentCapsule.half1.colorIndex
              /\ currentCapsule'.half2.colorIndex = currentCapsule.half2.colorIndex
       /\ \A cell \in Cells :
              grid'[cell].kind = "half" =>
                  LET h == grid'[cell]
                  IN  /\ grid[cell].kind = "half" =>
                             h.colorIndex = grid[cell].colorIndex
                      /\ (Falling /\ h.owner = currentCapsule.id) =>
                             h.colorIndex = (IF h.part = 1 THEN currentCapsule.half1
                                             ELSE currentCapsule.half2).colorIndex]_vars

\* a capsule of two colours has been accepted after the lock of another, and
\* the locked one's halves are in the grid
C17_Witness ==
    /\ Len(spawns) = 1 /\ spawns[1].capsule # NoCapsule
    /\ Len(landed) = 1
    /\ currentCapsule = spawns[1].capsule
    /\ currentCapsule.half1.colorIndex # currentCapsule.half2.colorIndex

\* C18: during play, until the field is reset, a grid cell once occupied
\* keeps the very same occupant in every later state (a lock never writes an
\* occupied cell), and every capsule half stored at cell (c, r) reports
\* gridCol = c and gridRow = r.
C18_OccupantsNeverChange ==
    [][/\ lastOp' # "timeout" =>
              \A cell \in Cells : grid[cell] # Null => grid'[cell] = grid[cell]
       /\ \A cell \in Cells :
              grid'[cell].kind = "half" => CellOf(grid'[cell]) = cell]_vars

\* a capsule has locked next to earlier occupants, which are all still there
C18_Witness ==
    /\ Len(landed) = 1 /\ lastOp = "pressDown"
    /\ grid[CellOf(landed[1].half1)] = landed[1].half1
    /\ grid[<<0, 15>>].kind = "pathogen"

\* C10: a rotation succeeds exactly when its single target cell,
\* (gridCol, gridRow + 1) for a horizontal capsule and (gridCol + 1, gridRow)
\* for a vertical one, is inside the field and not occupied; it then moves a
\* half to that cell and nowhere else, and a rejected rotation leaves the
\* capsule exactly where it was.
C10_RotateIffTargetFree ==
    (lastOp = "pressRotate" /\ before # NoCapsule)
    => LET target == IF before.orientation = "horizontal"
                     THEN <<before.gridCol, before.gridRow + 1>>
                     ELSE <<before.gridCol + 1, before.gridRow>>
           free == /\ InBounds(target[1], target[2])
                   /\ grid[target] = Null
       IN  /\ CanRotate(before, WithGrid(grid)) <=> free
           /\ free => /\ Falling
                      /\ currentCapsule.orientation # before.orientation
                      /\ currentCapsule.gridCol = before.gridCol
                      /\ currentCapsule.gridRow = before.gridRow
                      /\ target \in {CellOf(currentCapsule.half1),
                                     CellOf(currentCapsule.half2)}
           /\ ~free => currentCapsule = before

\* a rotation was asked for with the target cell occupied, and rejected
C10_Witness ==
    /\ lastOp = "pressRotate" /\ before # NoCapsule
    /\ before.orientation = "horizontal"
    /\ IsOccupied(grid, before.gridCol, before.gridRow + 1)
    /\ currentCapsule = before

(***************************************************************************)
(* Properties of the timers (SpecTiming)                                   *)
(***************************************************************************)
\* the downward moves asked for by the fall timer in the last frame
AutomaticDowns == SelectSeq(downs, LAMBDA d : ~d.soft)
SoftDowns == SelectSeq(downs, LAMBDA d : d.soft /\ d.ok)

\* C19: in a frame whose automatic-fall step meets a falling capsule and no
\* game over, the fall timer is increased by the frame delta; if the result
\* is at least the fall interval, exactly one downward move is attempted for
\* the automatic fall and the timer is reset to 0; otherwise none is
\* attempted.  So the automatic fall moves the capsule by at most one row in
\* a frame, whatever the delta.
C19_OneFallAttemptPerFrame ==
    lastOp = "frame" =>
        /\ ~autoFall.ran => (Len(AutomaticDowns) = 0 /\ (isGameOver \/ ~Falling))
        /\ autoFall.ran =>
               IF autoFall.fallTimer + autoFall.delta >= fallSpeed
               THEN Len(AutomaticDowns) = 1 /\ fallTimer = 0
               ELSE /\ Len(AutomaticDowns) = 0
                    /\ fallTimer = autoFall.fallTimer + autoFall.delta
        /\ (Falling /\ before # NoCapsule /\ currentCapsule.id = before.id) =>
               currentCapsule.gridRow <=
                   before.gridRow + Len(SoftDowns) + Len(AutomaticDowns)

\* a frame of more than two fall intervals has moved the capsule by one row
C19_Witness ==
    /\ lastOp = "frame" /\ autoFall.ran
    /\ autoFall.fallTimer + autoFall.delta >= 2 * fallSpeed
    /\ Len(downs) = 1 /\ downs[1].ok
    /\ Falling /\ currentCapsule.gridRow = before.gridRow + 1

\* C20 as stated: after every successful soft drop, whether made by the
\* press of Down or by a repeat of the held key, the fall timer is 0.
C20_SoftDropResetsTimer ==
    \A i \in 1 .. Len(downs) :
        (downs[i].ok /\ (downs[i].soft \/ lastOp = "pressDown"))
            => downs[i].fallTimer = 0

\* Down has been pressed with the fall timer running, and the capsule has
\* moved down
C20_Witness ==
    /\ lastOp = "pressDown"
    /\ Len(downs) = 1 /\ downs[1].ok
    /\ before # NoCapsule /\ Falling
    /\ currentCapsule.gridRow = before.gridRow + 1
    /\ fallTimer > 0

(***************************************************************************)
(* Properties of the key repeat (SpecRepeat)                               *)
(***************************************************************************)
DirectionalPresses == {"pressLeft", "pressRight", "pressDown"}
PressedAction ==
    IF lastOp = "pressLeft" THEN "left"
    ELSE IF lastOp = "pressRight" THEN "right" ELSE "down"
\* the actions fired by the repeat of a held key in the handler call made last
Repeats == SelectSeq(fired, LAMBDA f : f.by = "repeat")

\* C21: a press of Left, Right or Down that meets a falling capsule requests
\* the key's action exactly once, at once; a frame requests actions for held
\* keys only, each for a key whose hold time has reached INPUT_REPEAT_DELAY,
\* and a frame that leaves the session going on with every held key below the
\* delay and makes no automatic fall leaves the falling capsule as it was (a
\* frame that ends the session forgets the held keys).
C21_PressFiresOnceThenDelay ==
    /\ (lastOp \in DirectionalPresses /\ before # NoCapsule) =>
           /\ Len(fired) = 1
           /\ fired[1].action = PressedAction /\ fired[1].by = "press"
    /\ lastOp = "frame" =>
           /\ \A i \in 1 .. Len(fired) :
                  /\ fired[i].by = "repeat"
                  /\ fired[i].held >= INPUT_REPEAT_DELAY
                  /\ fired[i].held - tick >= INPUT_REPEAT_DELAY
           /\ (/\ ~isGameOver
               /\ \A i \in 1 .. Len(keyHeldTime) :
                      keyHeldTime[i].value < INPUT_REPEAT_DELAY
               /\ Len(AutomaticDowns) = 0)
                  => (fired = << >> /\ currentCapsule = before)

\* Left has been down for some frames, not yet for the delay, and the frame
\* made last has requested nothing of the falling capsule
C21_Witness ==
    /\ lastOp = "frame" /\ Falling
    /\ Len(keyHeldTime) = 1 /\ keyHeldTime[1].key = KeyLeft
    /\ keyHeldTime[1].value >= 2 * tick
    /\ keyHeldTime[1].value < INPUT_REPEAT_DELAY
    /\ fired = << >> /\ currentCapsule = before

\* C22 as stated: with frames of one constant delta, a repeat fires when the
\* key's repeat accumulator has reached INPUT_REPEAT_RATE, and a repeat that
\* follows another repeat of the same key comes INPUT_REPEAT_RATE ms of frame
\* time after it.
C22_RepeatsEveryInterval ==
    lastOp = "frame" =>
        \A i \in 1 .. Len(Repeats) :
            /\ Repeats[i].accum >= INPUT_REPEAT_RATE
            /\ Repeats[i].since > 0 =>
                   Repeats[i].held - Repeats[i].since = INPUT_REPEAT_RATE

\* a held key has repeated for the second time
C22_Witness ==
    /\ lastOp = "frame"
    /\ Len(Repeats) = 1 /\ Repeats[1].since > 0
    /\ Repeats[1].action = "left"

\* the rotations requested in the handler call made last
Rotations == SelectSeq(fired, LAMBDA f : f.action = "rotate")

\* C23: a rotation is requested of the falling capsule once by each press of
\* a rotate key that meets a falling capsule, and by nothing else; a frame
\* leaves the orientation and the order of the halves of the falling capsule
\* as they were; the rotate keys are never in the held-key tables.
C23_RotationNeverRepeats ==
    /\ Len(Rotations) = IF lastOp = "pressRotate" /\ before # NoCapsule THEN 1 ELSE 0
    /\ \A i \in 1 .. Len(Rotations) : Rotations[i].by = "press"
    /\ (lastOp = "frame" /\ Falling /\ before # NoCapsule
          /\ currentCapsule.id = before.id) =>
           /\ currentCapsule.orientation = before.orientation
           /\ currentCapsule.half1IsFirst = before.half1IsFirst
    /\ \A i \in 1 .. Len(keyHeldTime) : keyHeldTime[i].key \notin {KeyUp, KeySpace}
    /\ \A i \in 1 .. Len(keyRepeatTime) : keyRepeatTime[i].key \notin {KeyUp, KeySpace}

\* a press of a rotate key has turned the falling capsule, and no key is in
\* the held-key tables
C23_Witness ==
    /\ lastOp = "pressRotate" /\ Len(Rotations) = 1
    /\ Falling /\ before # NoCapsule
    /\ currentCapsule.orientation # before.orientation
    /\ keyHeldTime = << >> /\ keyRepeatTime = << >>
    /\ elapsed >= INPUT_REPEAT_DELAY + INPUT_REPEAT_RATE

(***************************************************************************)
(* Properties of the sessions (SpecSession)                                *)
(***************************************************************************)
\* C24: when a session has been set up (the first spawn does not write the
\* grid), every occupied cell holds a pathogen that carries the coordinates
\* of its cell, in rows 6 to 15; the pathogens counted in the grid are as
\* many as were placed, and that is 4 + 2 * level unless the attempts ran
\* out.
C24_SetupPlacesPathogens ==
    lastOp = "startGame" =>
        /\ \A cell \in Cells :
               grid[cell] # Null =>
                   /\ grid[cell].kind = "pathogen"
                   /\ <<grid[cell].gridCol, grid[cell].gridRow>> = cell
                   /\ cell[1] >= 0 /\ cell[1] < 8
                   /\ cell[2] >= 6 /\ cell[2] <= 15
        /\ CountPathogens(grid) = setup.placed
        /\ placedCount = setup.placed
        /\ setup.attemps < MaxAttempts => setup.placed = 4 + 2 * level

\* a session has been set up with four pathogens, one of which took a second
\* attempt
C24_Witness ==
    /\ lastOp = "startGame"
    /\ setup.placed = 4 /\ setup.attemps = 5
    /\ CountPathogens(grid) = 4

\* C25: the placement loop of a session's setup has ended, after at most
\* 1000 attempts and with no more pathogens placed than asked for; where the
\* attempts ran out, the session has gone on with the pathogens placed and
\* its first capsule is falling.
C25_PlacementTerminates ==
    lastOp = "startGame" =>
        /\ setup.ended
        /\ setup.attemps <= 1000
        /\ setup.placed <= setup.pathogenCount
        /\ setup.pathogenCount = 4 + 2 * level
        /\ (setup.placed < setup.pathogenCount) =>
               /\ setup.attemps = 1000
               /\ CountPathogens(grid) = setup.placed
               /\ Len(spawns) = 1 /\ Falling /\ ~isGameOver /\ active

\* a session has started with two pathogens out of four, after 1000 attempts
C25_Witness ==
    /\ lastOp = "startGame"
    /\ setup.attemps = 1000 /\ setup.placed = 2 /\ setup.pathogenCount = 4
    /\ Falling /\ active

\* C26 as stated: a session started from the menu runs at the level and the
\* speed selected there: its setup asks for 4 + 2 * L pathogens and its fall
\* interval is that of the speed tier.
C26_SessionUsesMenuChoice ==
    lastOp = "startGame" =>
        /\ level = menu.level /\ speed = menu.speed
        /\ setup.pathogenCount = 4 + 2 * menu.level
        /\ fallSpeed = SPEEDS[menu.speed]

\* a session has been started from the menu with level 20 and speed HIGH
C26_Witness ==
    /\ lastOp = "startGame" /\ active
    /\ menu.level = 20 /\ menu.speed = "HIGH"

(***************************************************************************)
(* The bottle neck (Spec)                                                  *)
(***************************************************************************)
\* C27 as stated: a spawn that finds a locked occupant in the bottle neck
\* (rows 0 to BOTTLE_NECK_ROW - 1, any column) ends the session in game over
\* and leaves no capsule falling.
C27_OccupiedNeckEndsSession ==
    \A i \in 1 .. Len(spawns) :
        ~spawns[i].neckClear =>
            (spawns[i].isGameOver /\ spawns[i].capsule = NoCapsule)

\* a capsule has been accepted while the bottle neck held locked halves
C27_Witness ==
    /\ Len(spawns) = 1 /\ ~spawns[1].neckClear
    /\ ~isGameOver /\ Falling
    /\ currentCapsule = spawns[1].capsule
    /\ ~IsBottleNeckClear(grid)

(***************************************************************************)
(* Game over and the return to the menu (SpecSessionLive)                  *)
(***************************************************************************)
\* C28: the step that ends a session in game over sets one return-to-menu
\* timer; handleGameOver runs at most once in a session; while the session
\* that is over still shows, exactly one timer is pending, and otherwise
\* none; and a session that is over is left for the menu in the end.
C28_GameOverReturnsToMenu ==
    /\ [][(~isGameOver /\ isGameOver') =>
              (timeouts' = timeouts + 1 /\ gameOvers' = 1)]_vars
    /\ [](gameOvers <= 1)
    /\ [](timeouts = IF isGameOver /\ active THEN 1 ELSE 0)
    /\ ((isGameOver /\ active) ~> (~active /\ timeouts = 0))

\* the timer of a session that ended in game over has fired: the menu shows
C28_Witness ==
    /\ lastOp = "timeout"
    /\ isGameOver /\ gameOvers = 1
    /\ ~active /\ timeouts = 0

(***************************************************************************)
(* Properties of the grid (SpecGrid)                                       *)
(***************************************************************************)
\* the coordinates of the call made last are off the field
OffField ==
    gridOp.col < 0 \/ gridOp.col >= 8 \/ gridOp.row < 0 \/ gridOp.row >= 16

\* C29: whatever set, remove and clear have made of the grid, in every cell
\* of the field isOccupied is the negation of isEmpty, and isOccupied holds
\* exactly when get returns a pathogen or a capsule half.
C29_OccupiedComplementsEmpty ==
    /\ \A col \in 0 .. 7 : \A row \in 0 .. 15 :
           /\ IsOccupied(unitGrid, col, row) = ~IsEmpty(unitGrid, col, row)
           /\ IsOccupied(unitGrid, col, row)
                  <=> GridGet(unitGrid, col, row).kind \in {"pathogen", "half"}
    /\ (gridOp.op = "query" /\ ~OffField) =>
           /\ gridOp.isOccupied = ~gridOp.isEmpty
           /\ gridOp.isOccupied <=> gridOp.get.kind \in {"pathogen", "half"}
           /\ gridOp.get = unitGrid[<<gridOp.col, gridOp.row>>]

\* the cell asked about holds a capsule half, another cell holds a pathogen
C29_Witness ==
    /\ gridOp.op = "query" /\ ~OffField
    /\ gridOp.get.kind = "half" /\ gridOp.isOccupied /\ ~gridOp.isEmpty
    /\ \E cell \in Cells : unitGrid[cell].kind = "pathogen"
    /\ \E cell \in Cells : unitGrid[cell] = Null

\* C30: with coordinates off the field, get returns null, isOccupied false
\* and isEmpty true; set returns false and remove returns null, and both
\* leave the grid as it was.
C30_OffFieldIsSafe ==
    /\ (gridOp.op = "query" /\ OffField) =>
           /\ gridOp.get = Null
           /\ gridOp.isOccupied = FALSE
           /\ gridOp.isEmpty = TRUE
    /\ (gridOp.op = "set" /\ OffField) =>
           (gridOp.result = FALSE /\ unitGrid = gridPre)
    /\ (gridOp.op = "remove" /\ OffField) =>
           (gridOp.result = Null /\ unitGrid = gridPre)
    /\ (gridOp.op = "set" /\ ~OffField) => gridOp.result = TRUE

\* a pathogen has been handed to set one column right of the field, whose
\* cells are not all empty
C30_Witness ==
    /\ gridOp.op = "set" /\ gridOp.col = 8 /\ gridOp.row = 15
    /\ gridOp.content.kind = "pathogen"
    /\ gridOp.result = FALSE
    /\ unitGrid = gridPre
    /\ unitGrid[<<7, 15>>].kind = "half"

\* C31: after clear, whatever the grid held, every cell is empty,
\* getPathogens returns no pathogen and countPathogens returns 0; a clear of
\* a grid that is all empty leaves it all empty.
C31_ClearEmptiesTheGrid ==
    gridOp.op = "clear" =>
        /\ \A cell \in Cells : IsEmpty(unitGrid, cell[1], cell[2])
        /\ GetPathogens(unitGrid) = {}
        /\ CountPathogens(unitGrid) = 0
        /\ unitGrid = NewGrid
        /\ (gridPre = NewGrid => unitGrid = gridPre)

\* a grid that held a pathogen and a capsule half has been cleared
C31_Witness ==
    /\ gridOp.op = "clear"
    /\ CountPathogens(gridPre) = 1
    /\ \E cell \in Cells : gridPre[cell].kind = "half"
    /\ CountPathogens(unitGrid) = 0

\* C32: between handler calls of an active session, either the session is
\* over and there is no current capsule, or it is not over and there is a
\* current capsule, which is falling.
C32_OverOrOneFallingCapsule ==
    active =>
        \/ isGameOver /\ currentCapsule = NoCapsule
        \/ /\ ~isGameOver
           /\ currentCapsule # NoCapsule
           /\ currentCapsule.isFalling

\* a session ended by a lock under the spawn cells, still the current scene
C32_Witness ==
    /\ active /\ isGameOver /\ currentCapsule = NoCapsule
    /\ Len(landed) = 1 /\ timeouts = 1

\* the capsules that fall after the play
Capsules == PlayLength + 4 .. PlayLength + 6

\* C33: with frames that keep coming, a session in play reaches game over,
\* whatever the keys do in between, and every capsule that falls is locked
\* (or refused at the spawn cells) after some time.
C33_SessionReachesGameOver ==
    /\ (active /\ ~isGameOver) ~> isGameOver
    /\ \A n \in Capsules :
           (active /\ ~isGameOver /\ created = n)
               ~> (isGameOver \/ created > n)

\* the session has ended in a frame, after two locks
C33_Witness ==
    /\ active /\ isGameOver /\ lastOp = "frame"
    /\ landings = 2

\* C34 as stated: whenever the session is over, no key is tracked as held:
\* keyHeldTime and keyRepeatTime are empty, whether the last lock came from
\* an automatic fall, from a press of Down or from the repeat of a held Down.
C34_GameOverClearsInput ==
    isGameOver => (keyHeldTime = << >> /\ keyRepeatTime = << >>)

\* a press of Down has locked the last capsule and ended the session, and
\* Down is tracked as held
C34_Witness ==
    /\ isGameOver /\ active /\ lastOp = "pressDown"
    /\ Len(landed) = 1 /\ Len(spawns) = 1 /\ spawns[1].isGameOver
    /\ MapHas(keyHeldTime, KeyDown) /\ MapHas(keyRepeatTime, KeyDown)

\* the other two causes: a frame that ends the session leaves the tables
\* empty
C34_ClearedAfterFrame ==
    (isGameOver /\ lastOp = "frame" /\ Len(spawns) = 1) =>
        (keyHeldTime = << >> /\ keyRepeatTime = << >>)

\* a session as onActivate is to leave it
Fresh(T) ==
    /\ T.active /\ ~T.isGameOver
    /\ T.fallTimer = 0
    /\ T.keyHeldTime = << >> /\ T.keyRepeatTime = << >>
    /\ \A cell \in Cells : T.grid[cell] = Null \/ T.grid[cell].kind = "pathogen"
    /\ CountPathogens(T.grid) = T.setup.placed
    /\ T.currentCapsule # NoCapsule
    /\ T.currentCapsule.isFalling
    /\ T.currentCapsule.orientation = "horizontal"
    /\ T.currentCapsule.gridCol = 3 /\ T.currentCapsule.gridRow = 0
    /\ CellOf(T.currentCapsule.half1) = <<3, 0>>
    /\ CellOf(T.currentCapsule.half2) = <<4, 0>>

\* C35: an activation leaves a fresh session: not over, the fall timer at 0,
\* the held-key tables empty, the grid holding the pathogens just placed and
\* nothing else, and a falling capsule at the spawn cells.  This is so after
\* every start from the menu, and it would be so were the scene activated in
\* the state it is in, whatever that state is (as constructed, in play with
\* keys held, over, back in the menu).
C35_ActivationIsFresh ==
    /\ lastOp = "startGame" => Fresh(Scene)
    /\ Fresh(StartGameCall([Scene EXCEPT !.rngIdx = 1], 0, "LOW"))

\* a session started from the menu after an earlier session has ended
C35_Witness ==
    /\ lastOp = "startGame" /\ Fresh(Scene)
    /\ timeouts = 0 /\ created > PlayLength + 4

\* the cells of the grid that hold something
OccupiedCells == {cell \in Cells : IsOccupied(grid, cell[1], cell[2])}

\* C36: while a session is the current scene, the grid holds as many
\* occupied cells as pathogens were placed at setup plus two for every
\* capsule locked since, and as many pathogens as were placed at setup.
C36_TwoCellsPerLock ==
    active =>
        /\ Cardinality(OccupiedCells) = placedCount + 2 * lockedCount
        /\ CountPathogens(grid) = placedCount

\* a capsule has just been locked and the next one accepted
C36_Witness ==
    /\ active /\ ~isGameOver /\ landings = 1 /\ Len(landed) = 1
    /\ lockedCount = PlayLength + 1
    /\ Cardinality(OccupiedCells) = placedCount + 2 * lockedCount
    /\ placedCount = 4

\* a session whose first spawn found both spawn cells empty and was accepted
FirstSpawnAccepted(T) ==
    /\ Len(T.spawns) = 1
    /\ T.spawns[1].left = Null /\ T.spawns[1].right = Null
    /\ ~T.spawns[1].isGameOver
    /\ ~T.isGameOver /\ T.gameOvers = 0
    /\ T.currentCapsule # NoCapsule /\ T.currentCapsule.isFalling
    /\ \A cell \in Cells : T.grid[cell] # Null => cell[2] >= 6

\* C37: the first spawn of a session is accepted: the setup leaves rows 0 to
\* 5 empty, so both spawn cells are.  This is so after every start from the
\* menu, and wherever the menu can start a session it would be so for the
\* scene's level field at either end of the menu's range and for every
\* position of the random stream.
C37_FirstSpawnAccepted ==
    /\ lastOp = "startGame" => FirstSpawnAccepted(Scene)
    /\ ~active =>
           \A lvl \in MenuLevels : \A seed \in Seeds :
               FirstSpawnAccepted(
                   StartGameCall([Scene EXCEPT !.level = lvl, !.rngIdx = seed],
                                 lvl, "LOW"))

\* a session started after an earlier one was lost, its first capsule
\* falling over four pathogens
C37_Witness ==
    /\ lastOp = "startGame" /\ FirstSpawnAccepted(Scene)
    /\ created > PlayLength + 4
    /\ CountPathogens(grid) = 4

\* C38 as stated: in the handler call made last, every capsule spawned after
\* a lock was spawned with the fall timer at 0.
C38_TimerZeroAtSpawn ==
    lastOp # "startGame" =>
        \A i \in 1 .. Len(spawns) : spawns[i].fallTimer = 0

\* C38: what the fall timer is when a capsule is spawned after a lock depends
\* on what made the move down that failed.  The automatic fall resets the
\* timer before it moves, so the spawn finds 0; a press of Down and the
\* repeat of a held Down leave the timer alone when the move fails, so the
\* spawn finds the timer as the handler call found it.
C38_TimerAtSpawn ==
    [][LET failed == SelectSeq(downs', LAMBDA d : ~d.ok)
       IN  lastOp' \in {"pressDown", "frame"} =>
               /\ Len(spawns') = Len(failed)
               /\ \A i \in 1 .. Len(spawns') :
                      spawns'[i].fallTimer =
                          IF lastOp' = "pressDown" \/ failed[i].soft
                          THEN fallTimer ELSE 0]_vars

\* the repeat of a held Down has locked the capsule with the fall timer
\* running, and the next capsule was spawned and accepted with that timer
C38_Witness ==
    /\ lastOp = "frame"
    /\ Len(spawns) >= 1 /\ Len(downs) >= 1
    /\ downs[1].soft /\ ~downs[1].ok
    /\ ~spawns[1].isGameOver
    /\ spawns[1].fallTimer > 0

\* C39: four successful rotations in a row, with nothing in between, bring
\* the capsule back to what it was before the first of them: base cell,
\* orientation, anchor flag and the cell of each half (and all the rest of
\* it); after the first two of them the anchor flag was the other one.
C39_FourRotationsRestore ==
    Len(capTurns) = 4 =>
        LET start == capTurns[1]
        IN  /\ capsule.gridCol = start.gridCol
            /\ capsule.gridRow = start.gridRow
            /\ capsule.orientation = start.orientation
            /\ capsule.half1IsFirst = start.half1IsFirst
            /\ CellOf(capsule.half1) = CellOf(start.half1)
            /\ CellOf(capsule.half2) = CellOf(start.half2)
            /\ capsule = start
            /\ capTurns[3].half1IsFirst # start.half1IsFirst

\* four rotations in a row have succeeded against the grid, from a vertical
\* capsule of two colours anchored at half2
C39_Witness ==
    /\ Len(capTurns) = 4
    /\ capOp.op = "rotate" /\ capOp.ok /\ capOp.withGrid
    /\ capTurns[1].orientation = "vertical" /\ ~capTurns[1].half1IsFirst
    /\ capsule.half1.colorIndex # capsule.half2.colorIndex

====
